---- MODULE Spec2Model ----
(***************************************************************************)
(* Textual type inference for dot completion                               *)
(* (crates/repl/src/inference.rs).                                         *)
(*                                                                         *)
(* A Rust &str is modelled as a sequence of characters, each character a   *)
(* one-element TLA+ string.  Positions keep the source's 0-based           *)
(* convention: Slice(s, a, b) is s[a..b].  A character has a byte width    *)
(* (len_utf8); a slice taken at a byte offset that is not a character      *)
(* boundary panics, which is the outcome Panic.                            *)
(* Option<String> is None, Some(v), and a call that panics yields Panic.   *)
(***************************************************************************)
EXTENDS Integers, Sequences, FiniteSets, TLC

VARIABLES pc, content, up_to_line, engine, before_dot,
          line_num, bindings, current_impl_type, call, ret

vars == <<pc, content, up_to_line, engine, before_dot,
          line_num, bindings, current_impl_type, call, ret>>

\* ------------------------------------------------------------------------
\* Characters
\* ------------------------------------------------------------------------

\* A character outside ASCII: U+00E9, two bytes in UTF-8, lowercase letter.
EAcute == "U+00E9"

Digits == {"0", "1", "2", "3", "4", "5", "6", "7", "8", "9"}

Upper == {"A", "B", "C", "D", "E", "F", "G", "H", "I", "J", "K", "L", "M",
          "N", "O", "P", "Q", "R", "S", "T", "U", "V", "W", "X", "Y", "Z"}

Lower == {"a", "b", "c", "d", "e", "f", "g", "h", "i", "j", "k", "l", "m",
          "n", "o", "p", "q", "r", "s", "t", "u", "v", "w", "x", "y", "z",
          EAcute}

Whitespace == {" ", "\t"}

is_ascii_digit(c) == c \in Digits

is_uppercase(c) == c \in Upper

is_lowercase(c) == c \in Lower

is_alphabetic(c) == c \in Upper \cup Lower

is_alphanumeric(c) == c \in Upper \cup Lower \cup Digits

is_whitespace(c) == c \in Whitespace

\* c.is_alphanumeric() || c == '_'
is_ident_char(c) == is_alphanumeric(c) \/ c = "_"

\* char::len_utf8
len_utf8(c) == IF c = EAcute THEN 2 ELSE 1

\* ------------------------------------------------------------------------
\* Option<String> and the panic outcome
\* ------------------------------------------------------------------------

None == [t |-> "None"]

Some(v) == [t |-> "Some", v |-> v]

Panic == [t |-> "Panic"]

is_some(o) == o.t = "Some"

\* ------------------------------------------------------------------------
\* &str operations (0-based positions, as in the source)
\* ------------------------------------------------------------------------

At(s, i) == s[i + 1]

\* &s[a..b] for character positions a <= b
Slice(s, a, b) == SubSeq(s, a + 1, b)

\* &s[a..]
SliceFrom(s, a) == SubSeq(s, a + 1, Len(s))

\* &s[..b]
SliceTo(s, b) == SubSeq(s, 1, b)

MinOf(S) == CHOOSE i \in S : \A j \in S : i <= j

MaxOf(S) == CHOOSE i \in S : \A j \in S : i >= j

RECURSIVE byte_len(_)
\* str::len: the length in bytes
byte_len(s) == IF s = <<>> THEN 0 ELSE len_utf8(Head(s)) + byte_len(Tail(s))

\* The byte offset at which the character at position k starts
byte_offset(s, k) == byte_len(SliceTo(s, k))

\* str::is_char_boundary
is_char_boundary(s, b) == \E k \in 0..Len(s) : byte_offset(s, k) = b

\* The character position that starts at byte offset b (b a boundary)
char_pos(s, b) == CHOOSE k \in 0..Len(s) : byte_offset(s, k) = b

starts_with(s, p) == Len(s) >= Len(p) /\ SliceTo(s, Len(p)) = p

ends_with(s, p) == Len(s) >= Len(p) /\ SliceFrom(s, Len(s) - Len(p)) = p

\* str::contains(char)
contains(s, c) == \E i \in 1..Len(s) : s[i] = c

\* str::find(char) as a character position, -1 for None
find(s, c) ==
    LET hits == {i \in 0..(Len(s) - 1) : At(s, i) = c}
    IN  IF hits = {} THEN -1 ELSE MinOf(hits)

\* str::rfind(char) as a character position, -1 for None
rfind(s, c) ==
    LET hits == {i \in 0..(Len(s) - 1) : At(s, i) = c}
    IN  IF hits = {} THEN -1 ELSE MaxOf(hits)

\* str::find(&str), -1 for None
find_str(s, p) ==
    LET hits == {i \in 0..(Len(s) - Len(p)) : Slice(s, i, i + Len(p)) = p}
    IN  IF hits = {} THEN -1 ELSE MinOf(hits)

\* str::rfind(&str), -1 for None
rfind_str(s, p) ==
    LET hits == {i \in 0..(Len(s) - Len(p)) : Slice(s, i, i + Len(p)) = p}
    IN  IF hits = {} THEN -1 ELSE MaxOf(hits)

\* str::matches(char).count()
count_char(s, c) == Cardinality({i \in 1..Len(s) : s[i] = c})

trim_start(s) ==
    LET keep == {i \in 1..Len(s) : ~is_whitespace(s[i])}
    IN  IF keep = {} THEN <<>> ELSE SubSeq(s, MinOf(keep), Len(s))

trim_end(s) ==
    LET keep == {i \in 1..Len(s) : ~is_whitespace(s[i])}
    IN  IF keep = {} THEN <<>> ELSE SubSeq(s, 1, MaxOf(keep))

trim(s) == trim_end(trim_start(s))

\* chars().take_while(|c| c.is_alphanumeric() || *c == '_').collect()
take_ident(s) ==
    LET stop == {i \in 1..Len(s) : ~is_ident_char(s[i])}
    IN  IF stop = {} THEN s ELSE SubSeq(s, 1, MinOf(stop) - 1)

\* split(|c| !c.is_alphanumeric() && c != '_').last(): the identifier
\* characters after the last separator (empty when the text ends with one)
last_ident(s) ==
    LET stop == {i \in 1..Len(s) : ~is_ident_char(s[i])}
    IN  IF stop = {} THEN s ELSE SubSeq(s, MaxOf(stop) + 1, Len(s))

\* split(..).filter(|s| !s.is_empty()).last(): the last non-empty run of
\* identifier characters, None when there is none
last_nonempty_ident(s) ==
    LET ends == {i \in 1..Len(s) : is_ident_char(s[i])}
    IN  IF ends = {} THEN None
        ELSE LET e == MaxOf(ends) IN Some(last_ident(SubSeq(s, 1, e)))

\* ------------------------------------------------------------------------
\* str::parse::<i64>() and str::parse::<f64>()
\* ------------------------------------------------------------------------

all_digits(s) == \A i \in 1..Len(s) : is_ascii_digit(s[i])

strip_sign(s) ==
    IF s # <<>> /\ Head(s) \in {"+", "-"} THEN Tail(s) ELSE s

\* parse::<i64>().is_ok(): an optional sign and at least one digit; a value
\* of at most 18 digits always fits 64 bits, a longer one is taken to
\* overflow.
parse_i64_ok(s) ==
    LET d == strip_sign(s)
    IN  d # <<>> /\ all_digits(d) /\ Len(d) <= 18

to_ascii_lower(c) ==
    CASE c = "I" -> "i" [] c = "N" -> "n" [] c = "F" -> "f" [] c = "A" -> "a"
      [] c = "T" -> "t" [] c = "Y" -> "y" [] c = "E" -> "e"
      [] OTHER -> c

lowered(s) == [i \in 1..Len(s) |-> to_ascii_lower(s[i])]

\* Digit* ['.' Digit*] with at least one digit
is_decimal(s) ==
    LET dot == find(s, ".")
    IN  IF dot = -1 THEN s # <<>> /\ all_digits(s)
        ELSE /\ all_digits(SliceTo(s, dot))
             /\ all_digits(SliceFrom(s, dot + 1))
             /\ Len(s) > 1

\* parse::<f64>().is_ok(): Sign? ( inf | infinity | nan | Decimal Exp? ),
\* letters compared without case
parse_f64_ok(s) ==
    LET body == lowered(strip_sign(s))
        epos == find(body, "e")
    IN  \/ body \in {<<"i", "n", "f">>, <<"n", "a", "n">>,
                     <<"i", "n", "f", "i", "n", "i", "t", "y">>}
        \/ /\ epos = -1
           /\ is_decimal(body)
        \/ /\ epos # -1
           /\ is_decimal(SliceTo(body, epos))
           /\ LET ex == strip_sign(SliceFrom(body, epos + 1))
              IN  ex # <<>> /\ all_digits(ex)

\* ------------------------------------------------------------------------
\* Type labels
\* ------------------------------------------------------------------------

tString == <<"S", "t", "r", "i", "n", "g">>

tList == <<"L", "i", "s", "t">>

tMap == <<"M", "a", "p">>

tSet == <<"S", "e", "t">>

tInt == <<"I", "n", "t">>

tFloat == <<"F", "l", "o", "a", "t">>

tBool == <<"B", "o", "o", "l">>

tChar == <<"C", "h", "a", "r">>

tOption == <<"O", "p", "t", "i", "o", "n">>

tTuple == <<"T", "u", "p", "l", "e">>

tUnknown == <<"U", "n", "k", "n", "o", "w", "n">>

pListOpen == <<"L", "i", "s", "t", "[">>

pOptionOpen == <<"O", "p", "t", "i", "o", "n", "[">>

\* format!("List[{}]", elem)
list_of(elem) == pListOpen \o elem \o <<"]">>

\* format!("Option[{}]", elem)
option_of(elem) == pOptionOpen \o elem \o <<"]">>

\* ------------------------------------------------------------------------
\* Literal type inference
\* ------------------------------------------------------------------------

RECURSIVE bracket_end_scan(_, _, _)
\* The loop of detect_literal_type and infer_indexed_list_literal_type: the
\* character position of the `]` that brings the `[`/`]` depth back to 0,
\* -1 when the text ends first.
bracket_end_scan(s, i, depth) ==
    IF i >= Len(s) THEN -1
    ELSE IF At(s, i) = "[" THEN bracket_end_scan(s, i + 1, depth + 1)
    ELSE IF At(s, i) = "]"
         THEN IF depth - 1 = 0 THEN i
              ELSE bracket_end_scan(s, i + 1, depth - 1)
    ELSE bracket_end_scan(s, i + 1, depth)

\* A variant of the literal rules in which the number rule comes first and
\* no minus sign is stripped
detect_literal_type_number_first(expr) ==
    LET trimmed == trim(expr)
    IN  IF trimmed # <<>> /\ is_ascii_digit(Head(trimmed))
        THEN IF contains(trimmed, ".") THEN Some(tFloat) ELSE Some(tInt)
        ELSE IF starts_with(trimmed, <<"\"">>) \/ starts_with(trimmed, <<"'">>)
        THEN Some(tString)
        ELSE IF starts_with(trimmed, <<"[">>) THEN Some(tList)
        ELSE IF starts_with(trimmed, <<"%", "{">>) THEN Some(tMap)
        ELSE IF starts_with(trimmed, <<"#", "{">>) THEN Some(tSet)
        ELSE None

detect_literal_type(expr) ==
    LET trimmed == trim(expr)
        end_idx == bracket_end_scan(trimmed, 0, 0)
        num_part == IF starts_with(trimmed, <<"-">>) THEN Tail(trimmed)
                    ELSE trimmed
    IN  IF starts_with(trimmed, <<"\"">>) \/ starts_with(trimmed, <<"'">>)
        THEN Some(tString)
        ELSE IF starts_with(trimmed, <<"[">>)
        THEN IF end_idx # -1
             THEN \* &trimmed[end_idx + 1..]: end_idx counts characters
                  IF ~is_char_boundary(trimmed, end_idx + 1) THEN Panic
                  ELSE IF starts_with(
                            SliceFrom(trimmed, char_pos(trimmed, end_idx + 1)),
                            <<"[">>)
                  THEN None
                  ELSE Some(tList)
             ELSE Some(tList)
        ELSE IF starts_with(trimmed, <<"%", "{">>) THEN Some(tMap)
        ELSE IF starts_with(trimmed, <<"#", "{">>) THEN Some(tSet)
        ELSE IF num_part # <<>> /\ is_ascii_digit(Head(num_part))
        THEN IF contains(num_part, ".") THEN Some(tFloat) ELSE Some(tInt)
        ELSE None

RECURSIVE first_comma_scan(_, _, _)
\* The loop of extract_first_list_element: the character position of the
\* first `,` met at depth 0, -1 when there is none.
first_comma_scan(s, i, depth) ==
    IF i >= Len(s) THEN -1
    ELSE IF At(s, i) \in {"[", "(", "{"}
         THEN first_comma_scan(s, i + 1, depth + 1)
    ELSE IF At(s, i) \in {"]", ")", "}"}
         THEN first_comma_scan(s, i + 1, depth - 1)
    ELSE IF At(s, i) = "," /\ depth = 0 THEN i
    ELSE first_comma_scan(s, i + 1, depth)

\* A variant of extract_first_list_element that cuts at the first comma
\* whatever the bracket depth
first_element_to_comma(inner) ==
    IF find(inner, ",") = -1 THEN Some(inner)
    ELSE Some(SliceTo(inner, find(inner, ",")))

extract_first_list_element(inner) ==
    LET comma == first_comma_scan(inner, 0, 0)
    IN  IF comma = -1 THEN Some(inner)
        \* inner[..end_pos]: end_pos counts characters
        ELSE IF ~is_char_boundary(inner, comma) THEN Panic
        ELSE Some(SliceTo(inner, char_pos(inner, comma)))

RECURSIVE infer_list_type(_)
infer_list_type(expr) ==
    LET trimmed == trim(expr)
        inner == trim(Slice(trimmed, 1, Len(trimmed) - 1))
        first_elem == extract_first_list_element(inner)
        first_trimmed == trim(first_elem.v)
        nested == infer_list_type(first_trimmed)
        name == take_ident(first_trimmed)
    IN  IF ~starts_with(trimmed, <<"[">>) \/ ~ends_with(trimmed, <<"]">>)
        THEN None
        ELSE IF inner = <<>> THEN Some(tList)
        ELSE IF first_elem = Panic THEN Panic
        ELSE IF starts_with(first_trimmed, <<"[">>)
        THEN IF is_some(nested) THEN Some(list_of(nested.v)) ELSE nested
        ELSE IF starts_with(first_trimmed, <<"\"">>)
        THEN Some(list_of(tString))
        ELSE IF parse_i64_ok(first_trimmed) THEN Some(list_of(tInt))
        ELSE IF parse_f64_ok(first_trimmed) THEN Some(list_of(tFloat))
        ELSE IF first_trimmed # <<>> /\ is_uppercase(Head(first_trimmed))
        THEN IF name # <<>> THEN Some(list_of(name)) ELSE Some(tList)
        ELSE Some(tList)

RECURSIVE peel_or_stop(_, _)
RECURSIVE peel_or_current(_, _)
\* A variant of the peel loop that returns the current label at the bare
\* List too
peel_or_current(current_type, n) ==
    IF n = 0 THEN Some(current_type)
    ELSE IF starts_with(current_type, pListOpen)
            /\ ends_with(current_type, <<"]">>)
    THEN peel_or_current(Slice(current_type, 5, Len(current_type) - 1), n - 1)
    ELSE Some(current_type)

\* The loop of infer_indexed_list_literal_type over 0..index_count
peel_or_stop(current_type, n) ==
    IF n = 0 THEN Some(current_type)
    ELSE IF starts_with(current_type, pListOpen)
            /\ ends_with(current_type, <<"]">>)
    THEN peel_or_stop(Slice(current_type, 5, Len(current_type) - 1), n - 1)
    ELSE IF current_type = tList THEN None
    ELSE Some(current_type)

infer_indexed_list_literal_type(expr) ==
    LET trimmed == trim(expr)
        list_end == bracket_end_scan(trimmed, 0, 0)
        cut == char_pos(trimmed, list_end + 1)
        after_list == SliceFrom(trimmed, cut)
        index_count == count_char(after_list, "[")
        base_type == infer_list_type(SliceTo(trimmed, cut))
    IN  IF ~starts_with(trimmed, <<"[">>) THEN None
        ELSE IF list_end = -1 THEN None
        \* &trimmed[list_end + 1..]: list_end counts characters
        ELSE IF ~is_char_boundary(trimmed, list_end + 1) THEN Panic
        ELSE IF ~starts_with(after_list, <<"[">>) THEN None
        ELSE IF index_count = 0 THEN None
        ELSE IF ~is_some(base_type) THEN base_type
        ELSE peel_or_stop(base_type.v, index_count)

RECURSIVE split_top_level(_, _, _, _)
\* The element loop of infer_tuple_type and infer_field_access_type: split at
\* every `,` met at depth 0, each piece trimmed; the text after the last
\* comma is kept only when it is not blank.
split_top_level(s, depth, current, elements) ==
    IF s = <<>>
    THEN IF trim(current) # <<>> THEN Append(elements, trim(current))
         ELSE elements
    ELSE IF Head(s) \in {"(", "[", "{"}
    THEN split_top_level(Tail(s), depth + 1, Append(current, Head(s)),
                         elements)
    ELSE IF Head(s) \in {")", "]", "}"}
    THEN split_top_level(Tail(s), depth - 1, Append(current, Head(s)),
                         elements)
    ELSE IF Head(s) = "," /\ depth = 0
    THEN split_top_level(Tail(s), depth, <<>>,
                         Append(elements, trim(current)))
    ELSE split_top_level(Tail(s), depth, Append(current, Head(s)), elements)

RECURSIVE join_types(_)
\* types.join(", ")
join_types(types) ==
    IF types = <<>> THEN <<>>
    ELSE IF Len(types) = 1 THEN Head(types)
    ELSE Head(types) \o <<",", " ">> \o join_types(Tail(types))

RECURSIVE infer_tuple_type(_)

\* The classification of one element in infer_tuple_type (Panic when the
\* nested inference panics)
\* Option::unwrap_or_else (a panic stays a panic)
unwrap_or(opt, default) == IF opt = None THEN Some(default) ELSE opt

\* A variant of the element classification without the rule for true and
\* false
tuple_elem_type_no_bool(elem) ==
    IF starts_with(elem, <<"\"">>) THEN Some(tString)
    ELSE IF starts_with(elem, <<"[">>)
    THEN unwrap_or(infer_list_type(elem), tList)
    ELSE IF starts_with(elem, <<"(">>) /\ contains(elem, ",")
    THEN unwrap_or(infer_tuple_type(elem), tTuple)
    ELSE IF parse_i64_ok(elem) THEN Some(tInt)
    ELSE IF parse_f64_ok(elem) THEN Some(tFloat)
    ELSE IF elem # <<>> /\ is_uppercase(Head(elem))
    THEN Some(take_ident(elem))
    ELSE Some(tUnknown)

tuple_elem_type(elem) ==
        IF starts_with(elem, <<"\"">>) THEN Some(tString)
        ELSE IF starts_with(elem, <<"[">>)
        THEN unwrap_or(infer_list_type(elem), tList)
        ELSE IF starts_with(elem, <<"(">>) /\ contains(elem, ",")
        THEN unwrap_or(infer_tuple_type(elem), tTuple)
        ELSE IF elem = <<"t", "r", "u", "e">>
                \/ elem = <<"f", "a", "l", "s", "e">>
        THEN Some(tBool)
        ELSE IF parse_i64_ok(elem) THEN Some(tInt)
        ELSE IF parse_f64_ok(elem) THEN Some(tFloat)
        ELSE IF elem # <<>> /\ is_uppercase(Head(elem))
        THEN Some(take_ident(elem))
        ELSE Some(tUnknown)

infer_tuple_type(expr) ==
    LET trimmed == trim(expr)
        inner == trim(Slice(trimmed, 1, Len(trimmed) - 1))
        elements == split_top_level(inner, 0, <<>>, <<>>)
        types == [i \in 1..Len(elements) |-> tuple_elem_type(elements[i])]
    IN  IF ~starts_with(trimmed, <<"(">>) \/ ~ends_with(trimmed, <<")">>)
        THEN None
        ELSE IF inner = <<>> THEN Some(<<"(", ")">>)
        ELSE IF \E i \in 1..Len(types) : types[i] = Panic THEN Panic
        ELSE Some(<<"(">>
                  \o join_types([i \in 1..Len(types) |-> types[i].v])
                  \o <<")">>)

\* ------------------------------------------------------------------------
\* Method chain type inference
\* ------------------------------------------------------------------------

mShow == <<"s", "h", "o", "w">>

mHash == <<"h", "a", "s", "h">>

mCopy == <<"c", "o", "p", "y">>

ListShapePreserving ==
    {<<"f", "i", "l", "t", "e", "r">>,
     <<"t", "a", "k", "e">>,
     <<"d", "r", "o", "p">>,
     <<"r", "e", "v", "e", "r", "s", "e">>,
     <<"s", "o", "r", "t">>,
     <<"u", "n", "i", "q", "u", "e">>,
     <<"t", "a", "k", "e", "W", "h", "i", "l", "e">>,
     <<"d", "r", "o", "p", "W", "h", "i", "l", "e">>,
     <<"i", "n", "i", "t">>,
     <<"t", "a", "i", "l">>,
     <<"p", "u", "s", "h">>,
     <<"r", "e", "m", "o", "v", "e">>,
     <<"r", "e", "m", "o", "v", "e", "A", "t">>,
     <<"i", "n", "s", "e", "r", "t", "A", "t">>,
     <<"s", "e", "t">>,
     <<"s", "l", "i", "c", "e">>}

ListElementExtracting ==
    {<<"g", "e", "t">>,
     <<"h", "e", "a", "d">>,
     <<"l", "a", "s", "t">>,
     <<"n", "t", "h">>,
     <<"f", "i", "n", "d">>,
     <<"s", "u", "m">>,
     <<"p", "r", "o", "d", "u", "c", "t">>,
     <<"m", "a", "x", "i", "m", "u", "m">>,
     <<"m", "i", "n", "i", "m", "u", "m">>}

ListBoolProducing ==
    {<<"a", "n", "y">>,
     <<"a", "l", "l">>,
     <<"c", "o", "n", "t", "a", "i", "n", "s">>,
     <<"i", "s", "E", "m", "p", "t", "y">>}

ListCountProducing ==
    {<<"l", "e", "n", "g", "t", "h">>,
     <<"l", "e", "n">>,
     <<"c", "o", "u", "n", "t">>,
     <<"i", "n", "d", "e", "x", "O", "f">>}

ListOptionWrapping ==
    {<<"f", "i", "r", "s", "t">>,
     <<"s", "a", "f", "e", "H", "e", "a", "d">>,
     <<"s", "a", "f", "e", "L", "a", "s", "t">>}

ListBareProducing ==
    {<<"m", "a", "p">>,
     <<"f", "l", "a", "t", "M", "a", "p">>}

mEnumerate == <<"e", "n", "u", "m", "e", "r", "a", "t", "e">>

mFlatten == <<"f", "l", "a", "t", "t", "e", "n">>

mChars == <<"c", "h", "a", "r", "s">>

StringToStringList ==
    {<<"l", "i", "n", "e", "s">>,
     <<"w", "o", "r", "d", "s">>,
     <<"s", "p", "l", "i", "t">>}

StringToString ==
    {<<"t", "r", "i", "m">>,
     <<"t", "r", "i", "m", "S", "t", "a", "r", "t">>,
     <<"t", "r", "i", "m", "E", "n", "d">>,
     <<"t", "o", "U", "p", "p", "e", "r">>,
     <<"t", "o", "L", "o", "w", "e", "r">>,
     <<"r", "e", "p", "l", "a", "c", "e">>,
     <<"r", "e", "p", "l", "a", "c", "e", "A", "l", "l">>,
     <<"s", "u", "b", "s", "t", "r", "i", "n", "g">>,
     <<"r", "e", "p", "e", "a", "t">>,
     <<"p", "a", "d", "S", "t", "a", "r", "t">>,
     <<"p", "a", "d", "E", "n", "d">>,
     <<"r", "e", "v", "e", "r", "s", "e">>}

StringToInt ==
    {<<"l", "e", "n", "g", "t", "h">>,
     <<"i", "n", "d", "e", "x", "O", "f">>,
     <<"l", "a", "s", "t", "I", "n", "d", "e", "x", "O", "f">>}

StringToBool ==
    {<<"c", "o", "n", "t", "a", "i", "n", "s">>,
     <<"s", "t", "a", "r", "t", "s", "W", "i", "t", "h">>,
     <<"e", "n", "d", "s", "W", "i", "t", "h">>,
     <<"i", "s", "E", "m", "p", "t", "y">>}

OptionUnwrapping ==
    {<<"u", "n", "w", "r", "a", "p">>,
     <<"g", "e", "t", "O", "r", "E", "l", "s", "e">>}

OptionBoolProducing ==
    {<<"i", "s", "S", "o", "m", "e">>,
     <<"i", "s", "N", "o", "n", "e">>}

mMap == <<"m", "a", "p">>

\* A variant of the list rule in which a shape-preserving method forgets
\* the element type
list_method_forgets_elem(elem_type, method_name) ==
    IF method_name \in ListShapePreserving THEN Some(tList)
    ELSE IF method_name \in ListElementExtracting THEN elem_type
    ELSE IF method_name \in ListBoolProducing THEN Some(tBool)
    ELSE IF method_name \in ListCountProducing THEN Some(tInt)
    ELSE None

\* The `match base_type { "List" => .. }` arm
list_method_return_type(elem_type, method_name) ==
    IF method_name \in ListShapePreserving
    THEN IF is_some(elem_type) THEN Some(list_of(elem_type.v))
         ELSE Some(tList)
    ELSE IF method_name \in ListElementExtracting THEN elem_type
    ELSE IF method_name \in ListBoolProducing THEN Some(tBool)
    ELSE IF method_name \in ListCountProducing THEN Some(tInt)
    ELSE IF method_name \in ListOptionWrapping
    THEN IF is_some(elem_type) THEN Some(option_of(elem_type.v)) ELSE None
    ELSE IF method_name \in ListBareProducing THEN Some(tList)
    ELSE IF method_name = mEnumerate
    THEN IF is_some(elem_type)
         THEN Some(pListOpen \o <<"(", "I", "n", "t", ",", " ">>
                   \o elem_type.v \o <<")", "]">>)
         ELSE Some(tList)
    ELSE IF method_name = mFlatten
    THEN IF is_some(elem_type)
         THEN IF starts_with(elem_type.v, pListOpen) THEN elem_type
              ELSE Some(list_of(elem_type.v))
         ELSE Some(tList)
    ELSE None

\* The `"String" => ..` arm
string_method_return_type(method_name) ==
    IF method_name = mChars THEN Some(list_of(tChar))
    ELSE IF method_name \in StringToStringList THEN Some(list_of(tString))
    ELSE IF method_name \in StringToString THEN Some(tString)
    ELSE IF method_name \in StringToInt THEN Some(tInt)
    ELSE IF method_name \in StringToBool THEN Some(tBool)
    ELSE None

\* The `"Option" => ..` arm
option_method_return_type(elem_type, method_name) ==
    IF method_name \in OptionUnwrapping THEN elem_type
    ELSE IF method_name \in OptionBoolProducing THEN Some(tBool)
    ELSE IF method_name = mMap THEN Some(tOption)
    ELSE None

infer_method_return_type_static(receiver_type, method_name) ==
    LET is_list == starts_with(receiver_type, pListOpen)
                   /\ ends_with(receiver_type, <<"]">>)
        is_option == starts_with(receiver_type, pOptionOpen)
                     /\ ends_with(receiver_type, <<"]">>)
        base_type == IF is_list THEN tList
                     ELSE IF is_option THEN tOption
                     ELSE receiver_type
        elem_type ==
            IF is_list
            THEN Some(Slice(receiver_type, 5, Len(receiver_type) - 1))
            ELSE IF is_option
            THEN Some(Slice(receiver_type, 7, Len(receiver_type) - 1))
            ELSE None
    IN  IF method_name = mShow THEN Some(tString)
        ELSE IF method_name = mHash THEN Some(tInt)
        ELSE IF method_name = mCopy THEN Some(receiver_type)
        ELSE IF base_type = tList
        THEN list_method_return_type(elem_type, method_name)
        ELSE IF base_type = tString
        THEN string_method_return_type(method_name)
        ELSE IF base_type = tOption
        THEN option_method_return_type(elem_type, method_name)
        ELSE None

\* HashMap::get
get(map, key) == IF key \in DOMAIN map THEN Some(map[key]) ELSE None

\* HashMap::insert
insert(map, key, value) ==
    [k \in DOMAIN map \cup {key} |-> IF k = key THEN value ELSE map[k]]

RECURSIVE base_end_scan(_, _, _)
\* The loop that finds the base expression: the character position of the
\* first `.` at depth 0 that an alphabetic character follows; 0 when there
\* is none (base_end keeps its initial value).
base_end_scan(chars, i, depth) ==
    IF i >= Len(chars) THEN 0
    ELSE IF At(chars, i) \in {"[", "(", "{"}
    THEN base_end_scan(chars, i + 1, depth + 1)
    ELSE IF At(chars, i) \in {"]", ")", "}"}
    THEN base_end_scan(chars, i + 1, depth - 1)
    ELSE IF At(chars, i) = "." /\ depth = 0
            /\ i + 1 < Len(chars) /\ is_alphabetic(At(chars, i + 1))
    THEN i
    ELSE base_end_scan(chars, i + 1, depth)

RECURSIVE close_paren_scan(_, _, _)
\* The loop over remaining[paren_pos..]: the position, counted in characters
\* from paren_pos, of the `)` that closes the call; -1 when there is none.
close_paren_scan(s, i, depth) ==
    IF i >= Len(s) THEN -1
    ELSE IF At(s, i) = "(" THEN close_paren_scan(s, i + 1, depth + 1)
    ELSE IF At(s, i) = ")"
         THEN IF depth - 1 = 0 THEN i
              ELSE close_paren_scan(s, i + 1, depth - 1)
    ELSE close_paren_scan(s, i + 1, depth)

RECURSIVE process_method_calls(_, _)
\* The `while !remaining.is_empty() && remaining.starts_with('.')` loop
process_method_calls(remaining, current_type) ==
    IF remaining = <<>> \/ ~starts_with(remaining, <<".">>) THEN current_type
    ELSE LET rest == Tail(remaining)
             paren_pos == find(rest, "(")
             method_name == SliceTo(rest, paren_pos)
             rel == close_paren_scan(SliceFrom(rest, paren_pos), 0, 0)
             \* paren_pos is a byte offset, the loop index counts characters
             close_paren == byte_offset(rest, paren_pos) + rel
         IN  IF paren_pos = -1 THEN None
             ELSE IF rel = -1 THEN None
             ELSE IF ~is_some(current_type) THEN None
             ELSE IF ~is_char_boundary(rest, close_paren + 1) THEN Panic
             ELSE process_method_calls(
                      SliceFrom(rest, char_pos(rest, close_paren + 1)),
                      infer_method_return_type_static(current_type.v,
                                                      method_name))

infer_method_chain_type(expr, local_vars) ==
    LET trimmed == trim(expr)
        base_end == base_end_scan(trimmed, 0, 0)
        cut == char_pos(trimmed, base_end)
        base_expr == SliceTo(trimmed, cut)
        current_type ==
            IF starts_with(base_expr, <<"[">>) THEN infer_list_type(base_expr)
            ELSE IF starts_with(base_expr, <<"\"">>) THEN Some(tString)
            ELSE get(local_vars, trim(base_expr))
    IN  IF base_end = 0
        THEN IF starts_with(trimmed, <<"[">>) THEN infer_list_type(trimmed)
             ELSE IF starts_with(trimmed, <<"\"">>) THEN Some(tString)
             ELSE get(local_vars, trimmed)
        \* &remaining[..base_end]: base_end counts characters
        ELSE IF ~is_char_boundary(trimmed, base_end) THEN Panic
        ELSE IF current_type = Panic THEN Panic
        ELSE process_method_calls(SliceFrom(trimmed, cut), current_type)

\* ------------------------------------------------------------------------
\* Index expression type inference
\* ------------------------------------------------------------------------

RECURSIVE peel_all(_, _)
RECURSIVE peel_all_or_current(_, _)
\* A variant of the loop that returns the current type when it is not a
\* list type with peels still to do
peel_all_or_current(current_type, n) ==
    IF n = 0 THEN Some(current_type)
    ELSE IF starts_with(current_type, pListOpen)
            /\ ends_with(current_type, <<"]">>)
    THEN peel_all_or_current(Slice(current_type, 5, Len(current_type) - 1),
                             n - 1)
    ELSE Some(current_type)

\* The loop of infer_index_expr_type over 0..index_count
peel_all(current_type, n) ==
    IF n = 0 THEN Some(current_type)
    ELSE IF starts_with(current_type, pListOpen)
            /\ ends_with(current_type, <<"]">>)
    THEN peel_all(Slice(current_type, 5, Len(current_type) - 1), n - 1)
    ELSE None

infer_index_expr_type(expr, local_vars) ==
    LET trimmed == trim(expr)
        first_bracket == find(trimmed, "[")
        base_var == trim(SliceTo(trimmed, first_bracket))
        base_type == get(local_vars, base_var)
        index_count == count_char(trimmed, "[")
    IN  IF ~contains(trimmed, "[") THEN None
        ELSE IF base_var = <<>> THEN None
        ELSE IF base_type = None THEN None
        ELSE peel_all(base_type.v, index_count)

\* ------------------------------------------------------------------------
\* The evaluation engine (crate::ReplEngine), seen through its queries.
\* An engine is a record of finite tables; NoEngine is Option::None.
\* ------------------------------------------------------------------------

NoEngine == [present |-> FALSE]

\* ReplEngine::get_type_for_constructor
get_type_for_constructor(eng, name) == get(eng.constructors, name)

\* ReplEngine::get_types: the declared type names, in the engine's order
get_types(eng) == eng.types

\* ReplEngine::get_function_signature
get_function_signature(eng, func) == get(eng.signatures, func)

\* ReplEngine::get_field_type
get_field_type(eng, type_name, field_name) ==
    get(eng.fields, <<type_name, field_name>>)

\* ReplEngine::infer_expression_type
infer_expression_type(eng, expr, local_vars) == get(eng.expr_types, expr)

\* ------------------------------------------------------------------------
\* Field access type inference
\* ------------------------------------------------------------------------

RECURSIVE split_char(_, _)
\* str::split(char), every piece kept
split_char(s, c) ==
    LET p == find(s, c)
    IN  IF p = -1 THEN <<s>>
        ELSE <<SliceTo(s, p)>> \o split_char(SliceFrom(s, p + 1), c)

RECURSIVE digits_value(_, _)
\* The value of a digit string, saturating (an index that large is out of
\* range of every tuple label)
digits_value(s, acc) ==
    IF s = <<>> THEN acc
    ELSE IF acc >= 1000000 THEN acc
    ELSE digits_value(Tail(s),
                      10 * acc + (CHOOSE d \in 0..9 :
                                    Head(s) = <<"0", "1", "2", "3", "4", "5",
                                                "6", "7", "8", "9">>[d + 1]))

\* parse::<usize>().is_ok()
parse_usize_ok(s) ==
    LET d == IF s # <<>> /\ Head(s) = "+" THEN Tail(s) ELSE s
    IN  d # <<>> /\ all_digits(d) /\ Len(d) <= 19

parse_usize(s) ==
    digits_value(IF Head(s) = "+" THEN Tail(s) ELSE s, 0)

pTypeKw == <<"t", "y", "p", "e", " ">>

\* The fields of one `type Name = { .. }` line, <<>> when the line does not
\* declare type_name with both braces
type_line_fields(line, type_name) ==
    LET trimmed == trim(line)
        rest == trim(SliceFrom(trimmed, 5))
        stops == {i \in 0..(Len(rest) - 1) : At(rest, i) \in {"=", "["}}
        def_type_name == trim(IF stops = {} THEN rest
                              ELSE SliceTo(rest, MinOf(stops)))
        brace_start == find(trimmed, "{")
        after_brace == SliceFrom(trimmed, brace_start + 1)
        brace_end == find(after_brace, "}")
        pieces == split_char(SliceTo(after_brace, brace_end), ",")
    IN  IF starts_with(trimmed, pTypeKw) /\ def_type_name = type_name
           /\ brace_start # -1 /\ brace_end # -1
        THEN [found |-> TRUE,
              fields |-> SelectSeq([i \in 1..Len(pieces) |-> trim(pieces[i])],
                                   LAMBDA f : f # <<>>)]
        ELSE [found |-> FALSE, fields |-> <<>>]

\* The first line (content.lines()) that declares type_name decides the
\* fields: the loop breaks there.
extract_type_fields_from_source(doc, type_name) ==
    LET hits == {i \in 1..Len(doc) : type_line_fields(doc[i], type_name).found}
    IN  IF hits = {} THEN <<>>
        ELSE type_line_fields(doc[MinOf(hits)], type_name).fields

\* The `for field in fields` loop: the type of the first `name: ty` entry
\* whose name is field_name
source_field_type(fields, field_name) ==
    LET hits == {i \in 1..Len(fields) :
                    /\ find(fields[i], ":") # -1
                    /\ trim(SliceTo(fields[i], find(fields[i], ":")))
                         = field_name}
    IN  IF hits = {} THEN None
        ELSE LET f == fields[MinOf(hits)]
             IN  Some(trim(SliceFrom(f, find(f, ":") + 1)))

\* A variant of the field access that splits a tuple label at every comma
infer_field_access_type_flat_split(prefix, field_name, local_vars, eng, doc) ==
    LET field_start == rfind_str(prefix, <<".">> \o field_name)
        base_var == last_nonempty_ident(SliceTo(prefix, field_start))
        base_type == get(local_vars, base_var.v)
        pieces == split_char(Slice(base_type.v, 1, Len(base_type.v) - 1), ",")
        element_types == [i \in 1..Len(pieces) |-> trim(pieces[i])]
    IN  IF field_start = -1 THEN None
        ELSE IF base_var = None THEN None
        ELSE IF base_type = None THEN None
        ELSE IF /\ starts_with(base_type.v, <<"(">>)
                /\ ends_with(base_type.v, <<")">>)
                /\ parse_usize_ok(field_name)
                /\ parse_usize(field_name) < Len(element_types)
        THEN Some(element_types[parse_usize(field_name) + 1])
        ELSE None

infer_field_access_type(prefix, field_name, local_vars, eng, doc) ==
    LET field_start == rfind_str(prefix, <<".">> \o field_name)
        base_var == last_nonempty_ident(SliceTo(prefix, field_start))
        base_type == get(local_vars, base_var.v)
        element_types ==
            split_top_level(Slice(base_type.v, 1, Len(base_type.v) - 1),
                            0, <<>>, <<>>)
        from_engine == get_field_type(eng, base_type.v, field_name)
    IN  IF field_start = -1 THEN None
        ELSE IF base_var = None THEN None
        ELSE IF base_type = None THEN None
        ELSE IF /\ starts_with(base_type.v, <<"(">>)
                /\ ends_with(base_type.v, <<")">>)
                /\ parse_usize_ok(field_name)
                /\ parse_usize(field_name) < Len(element_types)
        THEN Some(element_types[parse_usize(field_name) + 1])
        ELSE IF is_some(from_engine) THEN from_engine
        ELSE source_field_type(
                 extract_type_fields_from_source(doc, base_type.v),
                 field_name)

\* ------------------------------------------------------------------------
\* Lambda parameter type inference
\* ------------------------------------------------------------------------

LambdaListMethods ==
    {<<"m", "a", "p">>,
     <<"f", "i", "l", "t", "e", "r">>,
     <<"e", "a", "c", "h">>,
     <<"a", "n", "y">>,
     <<"a", "l", "l">>,
     <<"f", "i", "n", "d">>,
     <<"t", "a", "k", "e", "W", "h", "i", "l", "e">>,
     <<"d", "r", "o", "p", "W", "h", "i", "l", "e">>,
     <<"p", "a", "r", "t", "i", "t", "i", "o", "n">>,
     <<"s", "p", "a", "n">>,
     <<"s", "o", "r", "t", "B", "y">>,
     <<"g", "r", "o", "u", "p", "B", "y">>,
     <<"c", "o", "u", "n", "t">>,
     <<"f", "o", "l", "d">>,
     <<"f", "o", "l", "d", "l">>,
     <<"f", "o", "l", "d", "r">>,
     <<"z", "i", "p", "W", "i", "t", "h">>}

LambdaOptionMethods ==
    {<<"m", "a", "p">>, <<"f", "l", "a", "t", "M", "a", "p">>, <<"f", "i", "l", "t", "e", "r">>}

LambdaMapMethods ==
    {<<"m", "a", "p">>, <<"f", "i", "l", "t", "e", "r">>, <<"e", "a", "c", "h">>}

LambdaSetMethods ==
    {<<"m", "a", "p">>,
     <<"f", "i", "l", "t", "e", "r">>,
     <<"e", "a", "c", "h">>,
     <<"a", "n", "y">>,
     <<"a", "l", "l">>}

mMapErr == <<"m", "a", "p", "E", "r", "r">>

pResultOpen == <<"R", "e", "s", "u", "l", "t", "[">>

pSetOpen == <<"S", "e", "t", "[">>

tResult == <<"R", "e", "s", "u", "l", "t">>

\* A variant of the list block in which the parameter of a lambda is always
\* Int, whatever the element type of the list
lambda_list_rule_int_elem(receiver_type, method_name) ==
    IF starts_with(receiver_type, tList) \/ starts_with(receiver_type, <<"[">>)
    THEN IF method_name \in LambdaListMethods THEN Some(tInt)
         ELSE [t |-> "next"]
    ELSE [t |-> "next"]

\* The `// List methods` block: Some(type), None for a `?` that returns
\* early, or "next" when the block falls through
lambda_list_rule(receiver_type, method_name) ==
    IF starts_with(receiver_type, tList) \/ starts_with(receiver_type, <<"[">>)
    THEN IF starts_with(receiver_type, pListOpen)
              /\ ~ends_with(receiver_type, <<"]">>)
         THEN None
         ELSE IF method_name \in LambdaListMethods
         THEN IF starts_with(receiver_type, pListOpen)
              THEN Some(Slice(receiver_type, 5, Len(receiver_type) - 1))
              ELSE IF starts_with(receiver_type, <<"[">>)
                      /\ ends_with(receiver_type, <<"]">>)
                      /\ Len(receiver_type) >= 2
              THEN Some(Slice(receiver_type, 1, Len(receiver_type) - 1))
              ELSE Some(tInt)
         ELSE [t |-> "next"]
    ELSE [t |-> "next"]

\* The `// Option methods` block
lambda_option_rule(receiver_type, method_name) ==
    IF starts_with(receiver_type, tOption)
    THEN IF method_name \in LambdaOptionMethods
         THEN IF starts_with(receiver_type, pOptionOpen)
                 /\ ends_with(receiver_type, <<"]">>)
              THEN Some(Slice(receiver_type, 7, Len(receiver_type) - 1))
              ELSE IF starts_with(receiver_type, tOption \o <<" ">>)
              THEN Some(SliceFrom(receiver_type, 7))
              ELSE Some(<<"a">>)
         ELSE [t |-> "next"]
    ELSE [t |-> "next"]

\* A variant of the Result block that splits at the first comma, whatever
\* brackets it is in
lambda_result_rule_first_comma(receiver_type, method_name) ==
    LET inner == Slice(receiver_type, 7, Len(receiver_type) - 1)
        pos == find(inner, ",")
        split == starts_with(receiver_type, pResultOpen)
                 /\ ends_with(receiver_type, <<"]">>)
                 /\ pos # -1
    IN  IF starts_with(receiver_type, tResult)
        THEN IF method_name = mMap
             THEN IF split THEN Some(trim(SliceTo(inner, pos)))
                  ELSE Some(<<"a">>)
             ELSE IF method_name = mMapErr
             THEN IF split THEN Some(trim(SliceFrom(inner, pos + 1)))
                  ELSE Some(<<"e">>)
             ELSE [t |-> "next"]
        ELSE [t |-> "next"]

\* The `// Result methods` block
lambda_result_rule(receiver_type, method_name) ==
    LET inner == Slice(receiver_type, 7, Len(receiver_type) - 1)
        pos == first_comma_scan(inner, 0, 0)
        split == starts_with(receiver_type, pResultOpen)
                 /\ ends_with(receiver_type, <<"]">>)
                 /\ pos # -1
    IN  IF starts_with(receiver_type, tResult)
        \* inner[..pos] and inner[pos+1..]: pos counts characters
        THEN IF split /\ (~is_char_boundary(inner, pos)
                          \/ ~is_char_boundary(inner, pos + 1))
             THEN Panic
             ELSE IF method_name = mMap
             THEN IF split
                  THEN Some(trim(SliceTo(inner, char_pos(inner, pos))))
                  ELSE Some(<<"a">>)
             ELSE IF method_name = mMapErr
             THEN IF split
                  THEN Some(trim(SliceFrom(inner, char_pos(inner, pos + 1))))
                  ELSE Some(<<"e">>)
             ELSE [t |-> "next"]
        ELSE [t |-> "next"]

\* The `// Map methods` block
lambda_map_rule(receiver_type, method_name) ==
    IF starts_with(receiver_type, tMap) /\ method_name \in LambdaMapMethods
    THEN Some(<<"(", "k", ",", " ", "v", ")">>)
    ELSE [t |-> "next"]

\* The `// Set methods` block
lambda_set_rule(receiver_type, method_name) ==
    IF starts_with(receiver_type, tSet)
    THEN IF starts_with(receiver_type, pSetOpen)
              /\ ~ends_with(receiver_type, <<"]">>)
         THEN None
         ELSE IF method_name \in LambdaSetMethods
         THEN IF starts_with(receiver_type, pSetOpen)
              THEN Some(Slice(receiver_type, 4, Len(receiver_type) - 1))
              ELSE Some(<<"a">>)
         ELSE [t |-> "next"]
    ELSE [t |-> "next"]

infer_lambda_param_type_for_method(receiver_type, method_name) ==
    LET r1 == lambda_list_rule(receiver_type, method_name)
        r2 == lambda_option_rule(receiver_type, method_name)
        r3 == lambda_result_rule(receiver_type, method_name)
        r4 == lambda_map_rule(receiver_type, method_name)
        r5 == lambda_set_rule(receiver_type, method_name)
    IN  IF r1.t # "next" THEN r1
        ELSE IF r2.t # "next" THEN r2
        ELSE IF r3.t # "next" THEN r3
        ELSE IF r4.t # "next" THEN r4
        ELSE IF r5.t # "next" THEN r5
        ELSE None

\* The position after the last member of S, 0 when there is none: where a
\* `while p > 0 && .. { p -= 1; }` loop stops walking back
last_plus_one(S) == IF S = {} THEN 0 ELSE MaxOf(S) + 1

\* `if let Some(param_type) = infer_lambda_param_type_for_method(..)`
insert_param_type(local_vars, param_name, param_type) ==
    IF param_type = Panic THEN Panic
    ELSE IF param_type = None THEN Some(local_vars)
    ELSE Some(insert(local_vars, param_name, param_type.v))

\* `if let Some(receiver_type) = infer_method_chain_type(..)`
lambda_param_of_receiver(local_vars, param_name, receiver_type, method_name) ==
    IF receiver_type = Panic THEN Panic
    ELSE IF receiver_type = None THEN Some(local_vars)
    ELSE insert_param_type(local_vars, param_name,
             infer_lambda_param_type_for_method(receiver_type.v, method_name))

\* `if let Some(arrow_idx) = receiver_expr.rfind("=>")`
after_last_arrow(receiver_expr) ==
    IF rfind_str(receiver_expr, <<"=", ">">>) # -1
    THEN trim(SliceFrom(receiver_expr,
                        rfind_str(receiver_expr, <<"=", ">">>) + 2))
    ELSE receiver_expr

\* `if let Some(dot_pos) = before_paren.rfind('.')`
lambda_param_before_paren(local_vars, param_name, before_paren) ==
    IF rfind(before_paren, ".") # -1
    THEN lambda_param_of_receiver(local_vars, param_name,
             infer_method_chain_type(
                 after_last_arrow(
                     trim(SliceTo(before_paren, rfind(before_paren, ".")))),
                 local_vars),
             trim(SliceFrom(before_paren, rfind(before_paren, ".") + 1)))
    ELSE Some(local_vars)

\* `if paren_pos > 0`
lambda_param_in_call(chars, local_vars, param_name, paren_pos) ==
    IF paren_pos > 0
    THEN lambda_param_before_paren(local_vars, param_name,
             trim_end(SliceTo(chars, paren_pos - 1)))
    ELSE Some(local_vars)

\* A variant of the parameter step that infers a bound parameter again
lambda_param_between_rebinding(chars, local_vars, param_start, param_end) ==
    IF param_start < param_end
    THEN lambda_param_in_call(chars, local_vars,
             Slice(chars, param_start, param_end),
             last_plus_one({i \in 0..(param_start - 1) : At(chars, i) = "("}))
    ELSE Some(local_vars)

\* `if param_start < param_end` and `if !local_vars.contains_key(&param_name)`
lambda_param_between(chars, local_vars, param_start, param_end) ==
    IF /\ param_start < param_end
       /\ Slice(chars, param_start, param_end) \notin DOMAIN local_vars
    THEN lambda_param_in_call(chars, local_vars,
             Slice(chars, param_start, param_end),
             last_plus_one({i \in 0..(param_start - 1) : At(chars, i) = "("}))
    ELSE Some(local_vars)

\* `let mut param_start = param_end; while ..`
lambda_param_ending(chars, local_vars, param_end) ==
    lambda_param_between(chars, local_vars,
        last_plus_one({i \in 0..(param_end - 1) : ~is_ident_char(At(chars, i))}),
        param_end)

\* One `=>` found at arrow_pos: the environment after the body of the
\* `if chars[pos] == '=' && chars[pos + 1] == '>'` branch, Some(map), or
\* Panic when the receiver inference panics
lambda_param_at(chars, arrow_pos, local_vars) ==
    lambda_param_ending(chars, local_vars,
        last_plus_one({i \in 0..(arrow_pos - 1) : ~is_whitespace(At(chars, i))}))

RECURSIVE lambda_params_from(_, _, _)
\* `pos += 2` after an arrow
lambda_params_after(chars, pos, after) ==
    IF after = Panic THEN Panic
    ELSE lambda_params_from(chars, pos + 2, after.v)

\* The `while pos < chars.len()` loop
lambda_params_from(chars, pos, local_vars) ==
    IF pos >= Len(chars) THEN Some(local_vars)
    ELSE IF pos + 1 < Len(chars) /\ At(chars, pos) = "="
            /\ At(chars, pos + 1) = ">"
    THEN lambda_params_after(chars, pos, lambda_param_at(chars, pos, local_vars))
    ELSE lambda_params_from(chars, pos + 1, local_vars)

\* local_vars after the pass, Some(map), or Panic
extract_lambda_params_to_local_vars(prefix, local_vars) ==
    lambda_params_from(prefix, 0, local_vars)

\* ------------------------------------------------------------------------
\* RHS type inference (main dispatcher)
\* ------------------------------------------------------------------------

RECURSIVE first_arg_end_scan(_, _, _)
\* The loop of infer_first_arg_type: where the first argument ends, 0 when
\* the loop never sets end_pos
first_arg_end_scan(inner, i, depth) ==
    IF i >= Len(inner) THEN 0
    ELSE IF At(inner, i) \in {"(", "[", "{"}
    THEN first_arg_end_scan(inner, i + 1, depth + 1)
    ELSE IF At(inner, i) \in {")", "]", "}"}
    THEN IF depth = 0 THEN i ELSE first_arg_end_scan(inner, i + 1, depth - 1)
    ELSE IF At(inner, i) = "," /\ depth = 0 THEN i
    ELSE first_arg_end_scan(inner, i + 1, depth)

is_int_text(s) ==
    s # <<>> /\ \A i \in 1..Len(s) : is_ascii_digit(s[i]) \/ s[i] = "-"

is_float_text(s) ==
    /\ contains(s, ".")
    /\ \A i \in 1..Len(s) : is_ascii_digit(s[i]) \/ s[i] \in {".", "-"}

infer_first_arg_type(args_str, local_vars) ==
    LET trimmed == trim(args_str)
        inner == Tail(trimmed)
        scanned == first_arg_end_scan(inner, 0, 0)
        close == find(inner, ")")
        \* a position counted in characters when the loop set it, the byte
        \* offset that find returns (or the length) otherwise
        end_char == IF scanned # 0 THEN char_pos(inner, scanned)
                    ELSE IF close # -1 THEN close ELSE Len(inner)
        first_arg == trim(SliceTo(inner, end_char))
    IN  IF ~starts_with(trimmed, <<"(">>) THEN None
        ELSE IF scanned # 0 /\ ~is_char_boundary(inner, scanned) THEN Panic
        ELSE IF first_arg = <<>> THEN None
        ELSE IF is_int_text(first_arg) THEN Some(tInt)
        ELSE IF is_float_text(first_arg) THEN Some(tFloat)
        ELSE IF starts_with(first_arg, <<"\"">>) THEN Some(tString)
        ELSE IF starts_with(first_arg, <<"[">>) THEN infer_list_type(first_arg)
        ELSE get(local_vars, first_arg)

\* The `for registered_type in &types` loop: the first declared type whose
\* last dotted component is name
type_by_suffix(types, name) ==
    LET hits == {i \in 1..Len(types) :
                    SliceFrom(types[i], rfind(types[i], ".") + 1) = name}
    IN  IF hits = {} THEN None ELSE Some(types[MinOf(hits)])

\* A variant of the constructor rule that labels every capitalised name,
\* call or not, with the name itself when the engine knows nothing
constructor_rule_any_name(trimmed, eng) ==
    LET name == take_ident(trimmed)
        by_ctor == get_type_for_constructor(eng, name)
        types == get_types(eng)
        by_suffix == type_by_suffix(types, name)
    IN  IF trimmed # <<>> /\ is_uppercase(Head(trimmed)) /\ name # <<>>
        THEN IF eng.present /\ is_some(by_ctor) THEN by_ctor
             ELSE IF eng.present /\ \E i \in 1..Len(types) : types[i] = name
             THEN Some(name)
             ELSE IF eng.present /\ is_some(by_suffix) THEN by_suffix
             ELSE Some(name)
        ELSE [t |-> "next"]

\* A variant of the constructor rule with no default label: a capitalised
\* name that the engine does not resolve falls through, call or not
constructor_rule_no_default(trimmed, eng) ==
    LET name == take_ident(trimmed)
        by_ctor == get_type_for_constructor(eng, name)
        types == get_types(eng)
        by_suffix == type_by_suffix(types, name)
    IN  IF trimmed # <<>> /\ is_uppercase(Head(trimmed)) /\ name # <<>>
        THEN IF eng.present /\ is_some(by_ctor) THEN by_ctor
             ELSE IF eng.present /\ \E i \in 1..Len(types) : types[i] = name
             THEN Some(name)
             ELSE IF eng.present /\ is_some(by_suffix) THEN by_suffix
             ELSE [t |-> "next"]
        ELSE [t |-> "next"]

\* The `// Record/Variant construction` block; "next" when it falls through
constructor_rule(trimmed, eng) ==
    LET name == take_ident(trimmed)
        rest == trim_start(SliceFrom(trimmed, Len(name)))
        is_construction == starts_with(rest, <<"(">>)
        by_ctor == get_type_for_constructor(eng, name)
        types == get_types(eng)
        by_suffix == type_by_suffix(types, name)
    IN  IF trimmed # <<>> /\ is_uppercase(Head(trimmed)) /\ name # <<>>
        THEN IF eng.present /\ is_some(by_ctor) THEN by_ctor
             ELSE IF eng.present /\ \E i \in 1..Len(types) : types[i] = name
             THEN Some(name)
             ELSE IF eng.present /\ is_some(by_suffix) THEN by_suffix
             ELSE IF is_construction THEN Some(name)
             ELSE [t |-> "next"]
        ELSE [t |-> "next"]

\* The `// Function call` block
function_call_rule(trimmed, eng, local_vars) ==
    LET paren_pos == find(trimmed, "(")
        func_part == trim(SliceTo(trimmed, paren_pos))
        args_part == SliceFrom(trimmed, paren_pos)
        sig == get_function_signature(eng, func_part)
        arrow_pos == rfind_str(sig.v, <<"-", ">">>)
        ret_type == trim(SliceFrom(sig.v, arrow_pos + 2))
        first_arg_type == infer_first_arg_type(args_part, local_vars)
    IN  IF paren_pos # -1 /\ eng.present /\ is_some(sig) /\ arrow_pos # -1
        THEN IF byte_len(ret_type) = 1 /\ is_lowercase(Head(ret_type))
                /\ first_arg_type # None
             THEN first_arg_type
             ELSE Some(ret_type)
        ELSE None

\* `if let Some(inferred) = first { return Some(inferred); }`, then rest
or_else(first, rest) == IF first # None THEN first ELSE rest

\* A rule that returned, or the rules after it
or_next(rule, rest) == IF rule.t # "next" THEN rule ELSE rest

\* A variant of the dispatcher that applies the string, map and set rules
\* before the method-chain rule
infer_rhs_literals_first(trimmed, eng, current_bindings) ==
    IF starts_with(trimmed, <<"\"">>) THEN Some(tString)
    ELSE IF starts_with(trimmed, <<"%", "{">>) THEN Some(tMap)
    ELSE IF starts_with(trimmed, <<"#", "{">>) THEN Some(tSet)
    ELSE
    or_else(IF contains(trimmed, ".") /\ contains(trimmed, "(")
            THEN infer_method_chain_type(trimmed, current_bindings)
            ELSE None,
    or_else(IF contains(trimmed, "[") /\ ~starts_with(trimmed, <<"[">>)
            THEN infer_index_expr_type(trimmed, current_bindings)
            ELSE None,
    IF starts_with(trimmed, <<"[">>)
    THEN or_else(infer_indexed_list_literal_type(trimmed),
                 infer_list_type(trimmed))
    ELSE or_else(IF /\ starts_with(trimmed, <<"(">>)
                    /\ ends_with(trimmed, <<")">>)
                    /\ contains(trimmed, ",")
                 THEN infer_tuple_type(trimmed)
                 ELSE None,
         or_next(constructor_rule(trimmed, eng),
                 IF is_int_text(trimmed) THEN Some(tInt)
                 ELSE IF is_float_text(trimmed) THEN Some(tFloat)
                 ELSE function_call_rule(trimmed, eng, current_bindings)))))

\* The dispatcher on the trimmed expression
infer_rhs_trimmed(trimmed, eng, current_bindings) ==
    or_else(IF contains(trimmed, ".") /\ contains(trimmed, "(")
            THEN infer_method_chain_type(trimmed, current_bindings)
            ELSE None,
    or_else(IF contains(trimmed, "[") /\ ~starts_with(trimmed, <<"[">>)
            THEN infer_index_expr_type(trimmed, current_bindings)
            ELSE None,
    IF starts_with(trimmed, <<"[">>)
    THEN or_else(infer_indexed_list_literal_type(trimmed),
                 infer_list_type(trimmed))
    ELSE IF starts_with(trimmed, <<"\"">>) THEN Some(tString)
    ELSE IF starts_with(trimmed, <<"%", "{">>) THEN Some(tMap)
    ELSE IF starts_with(trimmed, <<"#", "{">>) THEN Some(tSet)
    ELSE or_else(IF /\ starts_with(trimmed, <<"(">>)
                    /\ ends_with(trimmed, <<")">>)
                    /\ contains(trimmed, ",")
                 THEN infer_tuple_type(trimmed)
                 ELSE None,
         or_next(constructor_rule(trimmed, eng),
                 IF is_int_text(trimmed) THEN Some(tInt)
                 ELSE IF is_float_text(trimmed) THEN Some(tFloat)
                 ELSE function_call_rule(trimmed, eng, current_bindings)))))

infer_rhs_type(expr, eng, current_bindings) ==
    infer_rhs_trimmed(trim(expr), eng, current_bindings)

\* ------------------------------------------------------------------------
\* Receiver expression
\* ------------------------------------------------------------------------

\* The `while j > 0 && chars[j - 1] == '\\'` loop: the backslashes that
\* immediately precede position i
escapes_before(chars, i) ==
    LET other == {j \in 0..(i - 1) : At(chars, j) # "\\"}
    IN  IF other = {} THEN i ELSE i - 1 - MaxOf(other)

RECURSIVE receiver_start_scan(_, _, _, _, _)
\* The backward `while i > 0` loop: the position, counted in characters,
\* from which the text is returned; 0 when the scan exhausts the text
receiver_start_scan(chars, i, depth, in_string, string_char) ==
    IF i <= 0 THEN 0
    ELSE LET k == i - 1
             c == At(chars, k)
         IN  IF in_string
             THEN IF c = string_char /\ escapes_before(chars, k) % 2 = 0
                  THEN receiver_start_scan(chars, k, depth, FALSE, string_char)
                  ELSE receiver_start_scan(chars, k, depth, TRUE, string_char)
             ELSE IF c \in {"\"", "'"}
             THEN receiver_start_scan(chars, k, depth, TRUE, c)
             ELSE IF c \in {")", "]", "}"}
             THEN receiver_start_scan(chars, k, depth + 1, FALSE, string_char)
             ELSE IF c \in {"(", "[", "{"}
             THEN IF depth > 0
                  THEN receiver_start_scan(chars, k, depth - 1, FALSE,
                                           string_char)
                  ELSE k
             ELSE IF depth = 0 /\ ~is_ident_char(c) /\ c # "."
             THEN k + 1
             ELSE receiver_start_scan(chars, k, depth, FALSE, string_char)

\* A variant of the extraction that returns the text after an opener at
\* which the scan stopped, the opener left out
extract_receiver_after_opener(text) ==
    LET start == receiver_start_scan(text, Len(text), 0, FALSE, "\"")
    IN  IF start < Len(text) /\ At(text, start) \in {"(", "[", "{"}
        THEN Some(SliceFrom(text, start + 1))
        ELSE Some(SliceFrom(text, start))

\* Some(receiver text), or Panic: &text[i..] takes the character count i as
\* a byte offset
extract_receiver_expression(text) ==
    LET start == receiver_start_scan(text, Len(text), 0, FALSE, "\"")
    IN  IF ~is_char_boundary(text, start) THEN Panic
        ELSE Some(SliceFrom(text, char_pos(text, start)))

\* ------------------------------------------------------------------------
\* Local binding extraction
\* ------------------------------------------------------------------------

kEnd == <<"e", "n", "d">>

kSelf == <<"s", "e", "l", "f">>

pMvar == <<"m", "v", "a", "r", " ">>

\* The `// Check for trait impl header` test on a line without `=`
is_impl_header(trimmed) ==
    LET colon_pos == find(trimmed, ":")
        before_colon == trim(SliceTo(trimmed, colon_pos))
        after_colon == trim(SliceFrom(trimmed, colon_pos + 1))
        type_name == trim(Head(split_char(before_colon, "[")))
    IN  /\ colon_pos # -1
        /\ type_name # <<>>
        /\ is_uppercase(Head(type_name))
        /\ after_colon # <<>>
        /\ is_uppercase(Head(after_colon))
        /\ \A i \in 1..Len(after_colon) :
              is_ident_char(after_colon[i]) \/ after_colon[i] \in {"[", "]", ","}

\* before_colon of a header line
impl_header_type(trimmed) == trim(SliceTo(trimmed, find(trimmed, ":")))

\* The `// Detect self parameter` test
first_param_is_self(trimmed) ==
    LET paren_pos == find(trimmed, "(")
        tail == SliceFrom(trimmed, paren_pos + 1)
        params_end == find(tail, ")")
        first_param == trim(Head(split_char(SliceTo(tail, params_end), ",")))
    IN  paren_pos # -1 /\ params_end # -1 /\ first_param = kSelf

\* The `// Mvar declarations` block
mvar_bindings(trimmed, binds) ==
    LET rest == trim(SliceFrom(trimmed, 5))
        colon_pos == find(rest, ":")
        var_name == trim(SliceTo(rest, colon_pos))
        after_colon == trim(SliceFrom(rest, colon_pos + 1))
        eq_pos == find(after_colon, "=")
        type_name == trim(SliceTo(after_colon, eq_pos))
    IN  IF colon_pos # -1 /\ eq_pos # -1 /\ var_name # <<>> /\ type_name # <<>>
        THEN insert(binds, var_name, type_name)
        ELSE binds

\* A variant of the insertion in which the first binding of a name stays
insert_final_type_first_wins(binds, var_name, final_type) ==
    IF final_type = Panic THEN Panic
    ELSE IF is_some(final_type) /\ var_name \notin DOMAIN binds
    THEN Some(insert(binds, var_name, final_type.v))
    ELSE Some(binds)

\* `if let Some(ty) = final_type { bindings.insert(var_name.to_string(), ty); }`
insert_final_type(binds, var_name, final_type) ==
    IF final_type = Panic THEN Panic
    ELSE IF is_some(final_type)
    THEN Some(insert(binds, var_name, final_type.v))
    ELSE Some(binds)

\* A variant of final_type that ignores the annotation
final_type_inferred(explicit_type, after_eq, eng, binds) ==
    infer_rhs_type(after_eq, eng, binds)

\* `let final_type = explicit_type.or_else(|| infer_rhs_type(..))`
final_type_of(explicit_type, after_eq, eng, binds) ==
    IF is_some(explicit_type) THEN explicit_type
    ELSE infer_rhs_type(after_eq, eng, binds)

\* A variant of the insertion whose dispatcher sees no earlier binding
bind_var_fresh(binds, var_name, explicit_type, after_eq, eng) ==
    IF /\ var_name # <<>>
       /\ is_lowercase(Head(var_name))
       /\ \A i \in 1..Len(var_name) : is_ident_char(var_name[i])
    THEN insert_final_type(binds, var_name,
                           final_type_of(explicit_type, after_eq, eng, <<>>))
    ELSE Some(binds)

\* The checks on var_name, then the insertion
bind_var(binds, var_name, explicit_type, after_eq, eng) ==
    IF /\ var_name # <<>>
       /\ is_lowercase(Head(var_name))
       /\ \A i \in 1..Len(var_name) : is_ident_char(var_name[i])
    THEN insert_final_type(binds, var_name,
                           final_type_of(explicit_type, after_eq, eng, binds))
    ELSE Some(binds)

\* `let (var_name, explicit_type) = if let Some(colon_pos) = before_eq.find(':')`
bind_before_eq(binds, before_eq, after_eq, eng) ==
    IF find(before_eq, ":") # -1
    THEN bind_var(binds, trim(SliceTo(before_eq, find(before_eq, ":"))),
                  Some(trim(SliceFrom(before_eq, find(before_eq, ":") + 1))),
                  after_eq, eng)
    ELSE bind_var(binds, before_eq, None, after_eq, eng)

\* `if let Some(eq_pos) = trimmed.find('=')` with the `==` exclusion
bind_at_eq(trimmed, eq_pos, binds, eng) ==
    IF /\ eq_pos # -1
       /\ eq_pos + 1 < Len(trimmed)
       /\ At(trimmed, eq_pos + 1) # "="
    THEN bind_before_eq(binds, trim(SliceTo(trimmed, eq_pos)),
                        trim(SliceFrom(trimmed, eq_pos + 1)), eng)
    ELSE Some(binds)

\* The `// Simple bindings` block: Some(bindings), or Panic when the
\* dispatcher panics
simple_bindings(trimmed, binds, eng) ==
    bind_at_eq(trimmed, find(trimmed, "="), binds, eng)

\* The state of the scan after the simple-binding rule returned simple
line_scanned(binds, impl_type, simple) ==
    IF simple = Panic
    THEN [bindings |-> binds, impl |-> impl_type, panic |-> TRUE]
    ELSE [bindings |-> simple.v, impl |-> impl_type, panic |-> FALSE]

\* A variant of the test that takes no line for the current line
never_current_line(n, up_to) == FALSE

\* `if line_num == up_to_line`
is_current_line(n, up_to) == n = up_to

\* A variant of the detection that binds self on every line with a
\* parameter list while a context is active, whatever the first parameter
with_self_any_params(trimmed, binds, impl_type) ==
    IF is_some(impl_type) /\ contains(trimmed, "(")
    THEN insert(binds, kSelf, impl_type.v)
    ELSE binds

\* The `// Detect self parameter` block
with_self(trimmed, binds, impl_type) ==
    IF is_some(impl_type) /\ first_param_is_self(trimmed)
    THEN insert(binds, kSelf, impl_type.v)
    ELSE binds

\* The rest of an iteration once `self` is bound: the skip of the current
\* line, the mvar declarations and the simple bindings
scan_bindings(trimmed, current, binds, impl_type, eng) ==
    IF current
    THEN [bindings |-> binds, impl |-> impl_type, panic |-> FALSE]
    ELSE IF starts_with(trimmed, pMvar)
    THEN [bindings |-> mvar_bindings(trimmed, binds),
          impl |-> impl_type, panic |-> FALSE]
    ELSE line_scanned(binds, impl_type, simple_bindings(trimmed, binds, eng))

\* An iteration on the trimmed line
scan_trimmed(trimmed, current, binds, impl_type, eng) ==
    IF trimmed = <<>> \/ starts_with(trimmed, <<"#">>)
    THEN [bindings |-> binds, impl |-> impl_type, panic |-> FALSE]
    ELSE IF ~contains(trimmed, "=") /\ trimmed = kEnd
    THEN [bindings |-> binds, impl |-> None, panic |-> FALSE]
    ELSE IF ~contains(trimmed, "=") /\ is_impl_header(trimmed)
    THEN [bindings |-> binds, impl |-> Some(impl_header_type(trimmed)),
          panic |-> FALSE]
    ELSE scan_bindings(trimmed, current, with_self(trimmed, binds, impl_type),
                       impl_type, eng)

\* One iteration of the `for (line_num, line) in content.lines()` loop:
\* the bindings and the trait-implementation context after the line
scan_line(line, current, binds, impl_type, eng) ==
    scan_trimmed(trim(line), current, binds, impl_type, eng)

RECURSIVE scan_from(_, _, _, _, _, _)
\* The next iteration, unless the line panicked
scan_next(doc, n, up_to, after, eng) ==
    IF after.panic THEN Panic
    ELSE scan_from(doc, n + 1, up_to, after.bindings, after.impl, eng)

\* The loop from line n on (0-based), broken when n > up_to
scan_from(doc, n, up_to, binds, impl_type, eng) ==
    IF n >= Len(doc) \/ n > up_to THEN Some(binds)
    ELSE scan_next(doc, n, up_to,
             scan_line(doc[n + 1], is_current_line(n, up_to), binds,
                       impl_type, eng),
             eng)

\* Some(bindings), or Panic
extract_local_bindings(doc, up_to, eng) ==
    scan_from(doc, 0, up_to, <<>>, None, eng)

\* ------------------------------------------------------------------------
\* High-level entry point
\* ------------------------------------------------------------------------

\* `let expr_to_infer = ..`
expr_to_infer_of(prefix) ==
    LET eq_pos == rfind(prefix, "=")
        before_eq == SliceTo(prefix, eq_pos)
    IN  IF /\ eq_pos # -1
           /\ ~ends_with(before_eq, <<"!">>) /\ ~ends_with(before_eq, <<"=">>)
           /\ ~ends_with(before_eq, <<"<">>) /\ ~ends_with(before_eq, <<">">>)
        THEN trim(SliceFrom(prefix, eq_pos + 1))
        ELSE prefix

\* `// Try literal type first`
try_literal(prefix) ==
    LET receiver_expr == extract_receiver_expression(expr_to_infer_of(prefix))
    IN  IF receiver_expr = Panic THEN Panic
        ELSE detect_literal_type(receiver_expr.v)

\* `// Try local variable lookup`
try_local_var(prefix, local_vars) == get(local_vars, last_ident(prefix))

\* `// Try field access type`: only with an engine
try_field_access(prefix, local_vars, eng, doc) ==
    IF eng.present
    THEN infer_field_access_type(prefix, last_ident(prefix), local_vars, eng,
                                 doc)
    ELSE None

\* `// Try indexed list literal`
try_indexed_literal(prefix) ==
    infer_indexed_list_literal_type(expr_to_infer_of(prefix))

\* `// Try index expression`
try_index_expr(prefix, local_vars) ==
    infer_index_expr_type(expr_to_infer_of(prefix), local_vars)

\* `// Try function call return type`
try_rhs(prefix, local_vars, eng) ==
    infer_rhs_type(expr_to_infer_of(prefix), eng, local_vars)

\* `// Fall back to engine's general expression type inference`
try_engine_fallback(prefix, local_vars, eng) ==
    IF eng.present
    THEN infer_expression_type(eng, expr_to_infer_of(prefix), local_vars)
    ELSE None

\* A variant of the chain of strategies that looks the identifier up in the
\* environment before it classifies the literal
infer_env_first(doc, prefix, eng, local_vars) ==
    or_else(try_local_var(prefix, local_vars),
    or_else(try_literal(prefix),
    or_else(try_field_access(prefix, local_vars, eng, doc),
    or_else(try_indexed_literal(prefix),
    or_else(try_index_expr(prefix, local_vars),
    or_else(try_rhs(prefix, local_vars, eng),
            try_engine_fallback(prefix, local_vars, eng)))))))

\* The chain of `if let Some(..) = .. { return .. }` of the entry point,
\* local_vars being the environment after the lambda pass
infer_with_bindings(doc, prefix, eng, local_vars) ==
    or_else(try_literal(prefix),
    or_else(try_local_var(prefix, local_vars),
    or_else(try_field_access(prefix, local_vars, eng, doc),
    or_else(try_indexed_literal(prefix),
    or_else(try_index_expr(prefix, local_vars),
    or_else(try_rhs(prefix, local_vars, eng),
            try_engine_fallback(prefix, local_vars, eng)))))))

\* The entry point after the lambda pass returned local_vars
infer_after_lambda_pass(doc, prefix, eng, local_vars) ==
    IF local_vars = Panic THEN Panic
    ELSE infer_with_bindings(doc, prefix, eng, local_vars.v)

\* The entry point after extract_local_bindings returned binds
infer_after_scan(doc, prefix, eng, binds) ==
    IF binds = Panic THEN Panic
    ELSE infer_after_lambda_pass(
             doc, prefix, eng,
             extract_lambda_params_to_local_vars(prefix, binds.v))

infer_dot_receiver_type(doc, cursor_line, prefix, eng) ==
    infer_after_scan(doc, prefix, eng,
                     extract_local_bindings(doc, cursor_line, eng))

\* ------------------------------------------------------------------------
\* Inputs: documents, cursor lines, prefixes and engines
\* ------------------------------------------------------------------------

\* The longest document, in lines
MaxLines == 2

\* The lines documents are made of.  kind, name and arg describe the line
\* as it was written (arg: the right-hand side of a plain assignment, the
\* annotated type of an annotated or mvar line, the type of a header).
LinePool ==
    {\* x = 42
     [text |-> <<"x", " ", "=", " ", "4", "2">>, kind |-> "plain", name |-> <<"x">>, arg |-> <<"4", "2">>],
     \* y = "hello"
     [text |-> <<"y", " ", "=", " ", "\"", "h", "e", "l", "l", "o", "\"">>, kind |-> "plain", name |-> <<"y">>, arg |-> <<"\"", "h", "e", "l", "l", "o", "\"">>],
     \* server = Server.bind(8080)
     [text |-> <<"s", "e", "r", "v", "e", "r", " ", "=", " ", "S", "e", "r", "v", "e", "r", ".", "b", "i", "n", "d", "(", "8", "0", "8", "0", ")">>, kind |-> "plain", name |-> <<"s", "e", "r", "v", "e", "r">>, arg |-> <<"S", "e", "r", "v", "e", "r", ".", "b", "i", "n", "d", "(", "8", "0", "8", "0", ")">>],
     \* xs = [1, 2]
     [text |-> <<"x", "s", " ", "=", " ", "[", "1", ",", " ", "2", "]">>, kind |-> "plain", name |-> <<"x", "s">>, arg |-> <<"[", "1", ",", " ", "2", "]">>],
     \* x = xs.head()
     [text |-> <<"x", " ", "=", " ", "x", "s", ".", "h", "e", "a", "d", "(", ")">>, kind |-> "plain", name |-> <<"x">>, arg |-> <<"x", "s", ".", "h", "e", "a", "d", "(", ")">>],
     \* t = (1, "a")
     [text |-> <<"t", " ", "=", " ", "(", "1", ",", " ", "\"", "a", "\"", ")">>, kind |-> "plain", name |-> <<"t">>, arg |-> <<"(", "1", ",", " ", "\"", "a", "\"", ")">>],
     \* s = ["éé", 1]
     [text |-> <<"s", " ", "=", " ", "[", "\"", EAcute, EAcute, "\"", ",", " ", "1", "]">>, kind |-> "plain", name |-> <<"s">>, arg |-> <<"[", "\"", EAcute, EAcute, "\"", ",", " ", "1", "]">>],
     \* x: String = someUnknownCall()
     [text |-> <<"x", ":", " ", "S", "t", "r", "i", "n", "g", " ", "=", " ", "s", "o", "m", "e", "U", "n", "k", "n", "o", "w", "n", "C", "a", "l", "l", "(", ")">>, kind |-> "annotated", name |-> <<"x">>, arg |-> <<"S", "t", "r", "i", "n", "g">>],
     \* y: Int = ["éé", 1]
     [text |-> <<"y", ":", " ", "I", "n", "t", " ", "=", " ", "[", "\"", EAcute, EAcute, "\"", ",", " ", "1", "]">>, kind |-> "annotated", name |-> <<"y">>, arg |-> <<"I", "n", "t">>],
     \* mvar m: List[Int] = load()
     [text |-> <<"m", "v", "a", "r", " ", "m", ":", " ", "L", "i", "s", "t", "[", "I", "n", "t", "]", " ", "=", " ", "l", "o", "a", "d", "(", ")">>, kind |-> "mvar", name |-> <<"m">>, arg |-> <<"L", "i", "s", "t", "[", "I", "n", "t", "]">>],
     \* Person: Show
     [text |-> <<"P", "e", "r", "s", "o", "n", ":", " ", "S", "h", "o", "w">>, kind |-> "header", name |-> <<>>, arg |-> <<"P", "e", "r", "s", "o", "n">>],
     \*   show(self) = self.name
     [text |-> <<" ", " ", "s", "h", "o", "w", "(", "s", "e", "l", "f", ")", " ", "=", " ", "s", "e", "l", "f", ".", "n", "a", "m", "e">>, kind |-> "method", name |-> <<>>, arg |-> <<>>],
     \* end
     [text |-> <<"e", "n", "d">>, kind |-> "end", name |-> <<>>, arg |-> <<>>]}

LineTexts == {l.text : l \in LinePool}

\* More lines, of the longer documents only: a second header, method lines
\* with and without a body, a line whose second parameter is self,
\* rebindings of t, a comment and a blank line
BlockLines ==
    {\* Box[T]: Eq
     [text |-> <<"B", "o", "x", "[", "T", "]", ":", " ", "E", "q">>, kind |-> "header", name |-> <<>>, arg |-> <<"B", "o", "x", "[", "T", "]">>],
     \*   eq(self, other) = true
     [text |-> <<" ", " ", "e", "q", "(", "s", "e", "l", "f", ",", " ", "o", "t", "h", "e", "r", ")", " ", "=", " ", "t", "r", "u", "e">>, kind |-> "method", name |-> <<>>, arg |-> <<>>],
     \*   show(self)
     [text |-> <<" ", " ", "s", "h", "o", "w", "(", "s", "e", "l", "f", ")">>, kind |-> "method", name |-> <<>>, arg |-> <<>>],
     \*   helper(x, self) = 1
     [text |-> <<" ", " ", "h", "e", "l", "p", "e", "r", "(", "x", ",", " ", "s", "e", "l", "f", ")", " ", "=", " ", "1">>, kind |-> "other", name |-> <<>>, arg |-> <<>>],
     \* t = [1]
     [text |-> <<"t", " ", "=", " ", "[", "1", "]">>, kind |-> "plain", name |-> <<"t">>, arg |-> <<"[", "1", "]">>],
     \* t = unknown()
     [text |-> <<"t", " ", "=", " ", "u", "n", "k", "n", "o", "w", "n", "(", ")">>, kind |-> "plain", name |-> <<"t">>, arg |-> <<"u", "n", "k", "n", "o", "w", "n", "(", ")">>],
     \* # note
     [text |-> <<"#", " ", "n", "o", "t", "e">>, kind |-> "comment", name |-> <<>>, arg |-> <<>>],
     \* (blank)
     [text |-> <<>>, kind |-> "blank", name |-> <<>>, arg |-> <<>>]}

\* The description of a line of the pools
line_info(text) == CHOOSE l \in LinePool \cup BlockLines : l.text = text

RECURSIVE SeqsUpTo(_, _)
\* The sequences over S of length at most n
SeqsUpTo(S, n) ==
    IF n = 0 THEN {<<>>}
    ELSE LET shorter == SeqsUpTo(S, n - 1)
         IN  shorter \cup {Append(q, e) : q \in {r \in shorter : Len(r) = n - 1},
                                          e \in S}

\* Documents of more than MaxLines lines: trait-implementation blocks that
\* are closed, nested or followed by code, and names bound several times
LongDocuments ==
    {\* Person: Show /   show(self) = self.name / end / x = 42
     <<<<"P", "e", "r", "s", "o", "n", ":", " ", "S", "h", "o", "w">>,
      <<" ", " ", "s", "h", "o", "w", "(", "s", "e", "l", "f", ")", " ", "=", " ", "s", "e", "l", "f", ".", "n", "a", "m", "e">>,
      <<"e", "n", "d">>,
      <<"x", " ", "=", " ", "4", "2">>>>,
     \* Person: Show / Box[T]: Eq /   eq(self, other) = true
     <<<<"P", "e", "r", "s", "o", "n", ":", " ", "S", "h", "o", "w">>,
      <<"B", "o", "x", "[", "T", "]", ":", " ", "E", "q">>,
      <<" ", " ", "e", "q", "(", "s", "e", "l", "f", ",", " ", "o", "t", "h", "e", "r", ")", " ", "=", " ", "t", "r", "u", "e">>>>,
     \* Person: Show / end /   show(self) = self.name
     <<<<"P", "e", "r", "s", "o", "n", ":", " ", "S", "h", "o", "w">>,
      <<"e", "n", "d">>,
      <<" ", " ", "s", "h", "o", "w", "(", "s", "e", "l", "f", ")", " ", "=", " ", "s", "e", "l", "f", ".", "n", "a", "m", "e">>>>,
     \* Person: Show /   show(self) / Box[T]: Eq /   eq(self, other) = true / end
     <<<<"P", "e", "r", "s", "o", "n", ":", " ", "S", "h", "o", "w">>,
      <<" ", " ", "s", "h", "o", "w", "(", "s", "e", "l", "f", ")">>,
      <<"B", "o", "x", "[", "T", "]", ":", " ", "E", "q">>,
      <<" ", " ", "e", "q", "(", "s", "e", "l", "f", ",", " ", "o", "t", "h", "e", "r", ")", " ", "=", " ", "t", "r", "u", "e">>,
      <<"e", "n", "d">>>>,
     \* Person: Show /   helper(x, self) = 1 / end
     <<<<"P", "e", "r", "s", "o", "n", ":", " ", "S", "h", "o", "w">>,
      <<" ", " ", "h", "e", "l", "p", "e", "r", "(", "x", ",", " ", "s", "e", "l", "f", ")", " ", "=", " ", "1">>,
      <<"e", "n", "d">>>>,
     \* # note / Person: Show /  /   show(self) = self.name
     <<<<"#", " ", "n", "o", "t", "e">>,
      <<"P", "e", "r", "s", "o", "n", ":", " ", "S", "h", "o", "w">>,
      <<>>,
      <<" ", " ", "s", "h", "o", "w", "(", "s", "e", "l", "f", ")", " ", "=", " ", "s", "e", "l", "f", ".", "n", "a", "m", "e">>>>,
     \* t = (1, "a") / t = [1] / x = 42
     <<<<"t", " ", "=", " ", "(", "1", ",", " ", "\"", "a", "\"", ")">>,
      <<"t", " ", "=", " ", "[", "1", "]">>,
      <<"x", " ", "=", " ", "4", "2">>>>,
     \* t = [1] / t = (1, "a") / t = unknown()
     <<<<"t", " ", "=", " ", "[", "1", "]">>,
      <<"t", " ", "=", " ", "(", "1", ",", " ", "\"", "a", "\"", ")">>,
      <<"t", " ", "=", " ", "u", "n", "k", "n", "o", "w", "n", "(", ")">>>>,
     \* x = 42 / x: String = someUnknownCall() / x = xs.head()
     <<<<"x", " ", "=", " ", "4", "2">>,
      <<"x", ":", " ", "S", "t", "r", "i", "n", "g", " ", "=", " ", "s", "o", "m", "e", "U", "n", "k", "n", "o", "w", "n", "C", "a", "l", "l", "(", ")">>,
      <<"x", " ", "=", " ", "x", "s", ".", "h", "e", "a", "d", "(", ")">>>>}

\* Every document of up to MaxLines lines of LinePool, and the longer ones
Documents == SeqsUpTo(LineTexts, MaxLines) \cup LongDocuments

\* The text before the dot on the cursor line
PrefixPool ==
    {\* "abc"
     <<"\"", "a", "b", "c", "\"">>,
     \* [1, 2]
     <<"[", "1", ",", " ", "2", "]">>,
     \* y = 42
     <<"y", " ", "=", " ", "4", "2">>,
     \* x
     <<"x">>,
     \* xs
     <<"x", "s">>,
     \* self
     <<"s", "e", "l", "f">>,
     \* xs.map(p => p
     <<"x", "s", ".", "m", "a", "p", "(", "p", " ", "=", ">", " ", "p">>,
     \* [x
     <<"[", "x">>,
     \* self.age
     <<"s", "e", "l", "f", ".", "a", "g", "e">>,
     \* t.0
     <<"t", ".", "0">>,
     \* [["a","b"]][0]
     <<"[", "[", "\"", "a", "\"", ",", "\"", "b", "\"", "]", "]", "[", "0", "]">>,
     \* xs[0]
     <<"x", "s", "[", "0", "]">>,
     \* xs[t
     <<"x", "s", "[", "t">>,
     \* xs.filter(f)
     <<"x", "s", ".", "f", "i", "l", "t", "e", "r", "(", "f", ")">>,
     \* Person("A", 1)
     <<"P", "e", "r", "s", "o", "n", "(", "\"", "A", "\"", ",", " ", "1", ")">>,
     \* (1, "a")
     <<"(", "1", ",", " ", "\"", "a", "\"", ")">>,
     \* foo
     <<"f", "o", "o">>,
     \* Foo
     <<"F", "o", "o">>,
     \* a + foo
     <<"a", " ", "+", " ", "f", "o", "o">>,
     \* if foo
     <<"i", "f", " ", "f", "o", "o">>,
     \* éé+foo
     <<EAcute, EAcute, "+", "f", "o", "o">>}

\* A live engine that declares Person and geo.Point, the constructor Circle
\* of Shape, two functions, the fields of Person, and types `foo` by its
\* general inference.
LiveEngine ==
    [present |-> TRUE,
     constructors |-> insert(<<>>, <<"C", "i", "r", "c", "l", "e">>, <<"S", "h", "a", "p", "e">>),
     types |-> <<<<"P", "e", "r", "s", "o", "n">>, <<"g", "e", "o", ".", "P", "o", "i", "n", "t">>>>,
     signatures |->
        insert(insert(<<>>, <<"p", "a", "r", "s", "e">>,
                      <<"p", "a", "r", "s", "e", "(", "s", ":", " ", "S", "t", "r", "i", "n", "g", ")", " ", "-", ">", " ", "I", "n", "t">>),
               <<"i", "d", "e", "n", "t", "i", "t", "y">>,
               <<"i", "d", "e", "n", "t", "i", "t", "y", "(", "x", ":", " ", "a", ")", " ", "-", ">", " ", "a">>),
     fields |->
        insert(insert(<<>>, <<<<"P", "e", "r", "s", "o", "n">>, <<"a", "g", "e">>>>, tInt),
               <<<<"P", "e", "r", "s", "o", "n">>, <<"n", "a", "m", "e">>>>, tString),
     expr_types |-> insert(<<>>, <<"f", "o", "o">>, tBool)]

Engines == {NoEngine, LiveEngine}

\* ------------------------------------------------------------------------
\* Inputs: list literals, index suffixes and tuple literals
\* ------------------------------------------------------------------------

\* The deepest nesting of a list literal
MaxNest == 2

\* The most index suffixes after a list literal
MaxIndex == 3

\* The most elements of a tuple literal
MaxTupleLen == 3

\* First elements that are not lists.  own is the type the element has by
\* itself, ruled the type the rules of list inference (nested list, string,
\* integer, float, capitalised name) give it.
Atoms ==
    {\* 1
     [text |-> <<"1">>, own |-> Some(<<"I", "n", "t">>), ruled |-> Some(<<"I", "n", "t">>)],
     \* -7
     [text |-> <<"-", "7">>, own |-> Some(<<"I", "n", "t">>), ruled |-> Some(<<"I", "n", "t">>)],
     \* 3.14
     [text |-> <<"3", ".", "1", "4">>, own |-> Some(<<"F", "l", "o", "a", "t">>), ruled |-> Some(<<"F", "l", "o", "a", "t">>)],
     \* "a"
     [text |-> <<"\"", "a", "\"">>, own |-> Some(<<"S", "t", "r", "i", "n", "g">>), ruled |-> Some(<<"S", "t", "r", "i", "n", "g">>)],
     \* Foo(1, 2)
     [text |-> <<"F", "o", "o", "(", "1", ",", " ", "2", ")">>, own |-> Some(<<"F", "o", "o">>), ruled |-> Some(<<"F", "o", "o">>)],
     \* Bar
     [text |-> <<"B", "a", "r">>, own |-> Some(<<"B", "a", "r">>), ruled |-> Some(<<"B", "a", "r">>)],
     \* true
     [text |-> <<"t", "r", "u", "e">>, own |-> Some(<<"B", "o", "o", "l">>), ruled |-> None],
     \* (1, "a")
     [text |-> <<"(", "1", ",", " ", "\"", "a", "\"", ")">>, own |-> Some(<<"(", "I", "n", "t", ",", " ", "S", "t", "r", "i", "n", "g", ")">>), ruled |-> None],
     \* x
     [text |-> <<"x">>, own |-> None, ruled |-> None]}

\* What follows the first element inside the brackets
RestPool ==
    {\* (no further element)
     <<>>,
     \* , 2
     <<",", " ", "2">>,
     \*  , "b", [3] 
     <<" ", ",", " ", "\"", "b", "\"", ",", " ", "[", "3", "]", " ">>}

EmptyList == [text |-> <<"[", "]">>, own |-> Some(tList), ruled |-> Some(tList)]

\* The type `[first, ...]` has when its first element has type elem
list_around(elem) == IF elem = None THEN Some(tList) ELSE Some(list_of(elem.v))

\* The literal `[first rest]`
list_term(first, rest) ==
    [text |-> <<"[">> \o first.text \o rest \o <<"]">>,
     own |-> list_around(first.own),
     ruled |-> list_around(first.ruled)]

RECURSIVE ListTerms(_)
\* The list literals nested at most d deep
ListTerms(d) ==
    IF d = 0 THEN {}
    ELSE {EmptyList} \cup
         {list_term(first, rest) :
             first \in Atoms \cup ListTerms(d - 1), rest \in RestPool}

\* An index suffix; opens counts its `[`
IndexPool ==
    {\* [0]
     [text |-> <<"[", "0", "]">>, opens |-> 1],
     \* [i]
     [text |-> <<"[", "i", "]">>, opens |-> 1],
     \* [ys[0]]
     [text |-> <<"[", "y", "s", "[", "0", "]", "]">>, opens |-> 2]}

RECURSIVE cat_texts(_)
\* The texts of a sequence of descriptors, one after the other
cat_texts(ds) == IF ds = <<>> THEN <<>> ELSE Head(ds).text \o cat_texts(Tail(ds))

RECURSIVE sum_opens(_)
sum_opens(ds) == IF ds = <<>> THEN 0 ELSE Head(ds).opens + sum_opens(Tail(ds))

IndexSuffixes == SeqsUpTo(IndexPool, MaxIndex) \ {<<>>}

\* The elements of tuple literals, each with its classification
TupleElems ==
    {\* 42
     [text |-> <<"4", "2">>, type |-> <<"I", "n", "t">>],
     \* "hello"
     [text |-> <<"\"", "h", "e", "l", "l", "o", "\"">>, type |-> <<"S", "t", "r", "i", "n", "g">>],
     \* true
     [text |-> <<"t", "r", "u", "e">>, type |-> <<"B", "o", "o", "l">>],
     \* 3.14
     [text |-> <<"3", ".", "1", "4">>, type |-> <<"F", "l", "o", "a", "t">>],
     \* 1
     [text |-> <<"1">>, type |-> <<"I", "n", "t">>],
     \* [1, 2]
     [text |-> <<"[", "1", ",", " ", "2", "]">>, type |-> <<"L", "i", "s", "t", "[", "I", "n", "t", "]">>],
     \* (1, "a")
     [text |-> <<"(", "1", ",", " ", "\"", "a", "\"", ")">>, type |-> <<"(", "I", "n", "t", ",", " ", "S", "t", "r", "i", "n", "g", ")">>],
     \* Foo(1, 2)
     [text |-> <<"F", "o", "o", "(", "1", ",", " ", "2", ")">>, type |-> <<"F", "o", "o">>],
     \* f(a, b)
     [text |-> <<"f", "(", "a", ",", " ", "b", ")">>, type |-> <<"U", "n", "k", "n", "o", "w", "n">>],
     \* x
     [text |-> <<"x">>, type |-> <<"U", "n", "k", "n", "o", "w", "n">>]}

RECURSIVE sep_texts(_)
\* The texts of the elements, separated by ", "
sep_texts(ds) ==
    IF Len(ds) = 1 THEN Head(ds).text
    ELSE Head(ds).text \o <<",", " ">> \o sep_texts(Tail(ds))

RECURSIVE sep_types(_)
sep_types(ds) ==
    IF Len(ds) = 1 THEN Head(ds).type
    ELSE Head(ds).type \o <<",", " ">> \o sep_types(Tail(ds))

\* The literal `(e1, ..., en)` and the label `(T1, ..., Tn)`
tuple_term(ds) ==
    [text |-> <<"(">> \o sep_texts(ds) \o <<")">>,
     type |-> <<"(">> \o sep_types(ds) \o <<")">>,
     n |-> Len(ds)]

TupleTerms == {tuple_term(ds) : ds \in SeqsUpTo(TupleElems, MaxTupleLen) \ {<<>>}}

\* ------------------------------------------------------------------------
\* Inputs: method chains and malformed text
\* ------------------------------------------------------------------------

\* The most calls of a method chain
MaxChain == 2

\* The methods that keep the list as it is typed
ShapePreservingNames ==
    {<<"f", "i", "l", "t", "e", "r">>,
     <<"t", "a", "k", "e">>,
     <<"d", "r", "o", "p">>,
     <<"r", "e", "v", "e", "r", "s", "e">>,
     <<"s", "o", "r", "t">>,
     <<"u", "n", "i", "q", "u", "e">>,
     <<"t", "a", "k", "e", "W", "h", "i", "l", "e">>,
     <<"d", "r", "o", "p", "W", "h", "i", "l", "e">>,
     <<"i", "n", "i", "t">>,
     <<"t", "a", "i", "l">>,
     <<"p", "u", "s", "h">>,
     <<"r", "e", "m", "o", "v", "e">>,
     <<"r", "e", "m", "o", "v", "e", "A", "t">>,
     <<"i", "n", "s", "e", "r", "t", "A", "t">>,
     <<"s", "e", "t">>,
     <<"s", "l", "i", "c", "e">>}

\* Some methods that do not
OtherNames ==
    {<<"l", "e", "n">>,
     <<"m", "a", "p">>,
     <<"h", "e", "a", "d">>,
     <<"f", "i", "r", "s", "t">>}

\* Argument texts, balanced in their brackets
ArgPool ==
    {\* (no argument)
     <<>>,
     \* f
     <<"f">>,
     \* x => x > 0
     <<"x", " ", "=", ">", " ", "x", " ", ">", " ", "0">>,
     \* (a, b) => g(a)(b)
     <<"(", "a", ",", " ", "b", ")", " ", "=", ">", " ", "g", "(", "a", ")", "(", "b", ")">>,
     \* 0, [1, 2]
     <<"0", ",", " ", "[", "1", ",", " ", "2", "]">>,
     \* x => x.name.len() > 3
     <<"x", " ", "=", ">", " ", "x", ".", "n", "a", "m", "e", ".", "l", "e", "n", "(", ")", " ", ">", " ", "3">>}

\* The first call of a chain
FirstCalls ==
    {[method |-> m, args |-> a, keeps |-> m \in ShapePreservingNames] :
        m \in ShapePreservingNames \cup OtherNames, a \in ArgPool}

\* The calls after the first
LaterCalls ==
    {\* .filter(f)
     [method |-> <<"f", "i", "l", "t", "e", "r">>, args |-> <<"f">>, keeps |-> TRUE],
     \* .sort()
     [method |-> <<"s", "o", "r", "t">>, args |-> <<>>, keeps |-> TRUE],
     \* .take(2)
     [method |-> <<"t", "a", "k", "e">>, args |-> <<"2">>, keeps |-> TRUE],
     \* .set(0, g(1))
     [method |-> <<"s", "e", "t">>, args |-> <<"0", ",", " ", "g", "(", "1", ")">>, keeps |-> TRUE],
     \* .len()
     [method |-> <<"l", "e", "n">>, args |-> <<>>, keeps |-> FALSE],
     \* .map(f)
     [method |-> <<"m", "a", "p">>, args |-> <<"f">>, keeps |-> FALSE]}

\* Element types of the receiver xs
ElemTypes ==
    {\* Int
     <<"I", "n", "t">>,
     \* String
     <<"S", "t", "r", "i", "n", "g">>,
     \* (Int, String)
     <<"(", "I", "n", "t", ",", " ", "S", "t", "r", "i", "n", "g", ")">>,
     \* List[Int]
     <<"L", "i", "s", "t", "[", "I", "n", "t", "]">>}

RECURSIVE call_texts(_)
\* `.m1(args1).m2(args2)...`
call_texts(cs) ==
    IF cs = <<>> THEN <<>>
    ELSE <<".">> \o Head(cs).method \o <<"(">> \o Head(cs).args \o <<")">>
         \o call_texts(Tail(cs))

Chains ==
    {<<first>> \o rest : first \in FirstCalls,
                         rest \in SeqsUpTo(LaterCalls, MaxChain - 1)}

\* The chain of calls cs on the receiver xs
chain_term(cs, elem) ==
    [text |-> <<"x", "s">> \o call_texts(cs),
     elem |-> elem,
     calls |-> Len(cs),
     keeps |-> \A i \in 1..Len(cs) : cs[i].keeps]

\* Text cut short, unbalanced, unterminated, or written with characters of
\* more than one byte
MalformedTexts ==
    {\* [1, 2
     <<"[", "1", ",", " ", "2">>,
     \* (1, "a"
     <<"(", "1", ",", " ", "\"", "a", "\"">>,
     \* "abc
     <<"\"", "a", "b", "c">>,
     \* xs.filter(
     <<"x", "s", ".", "f", "i", "l", "t", "e", "r", "(">>,
     \* xs.filter(x => x
     <<"x", "s", ".", "f", "i", "l", "t", "e", "r", "(", "x", " ", "=", ">", " ", "x">>,
     \* ]
     <<"]">>,
     \* )
     <<")">>,
     \* (empty)
     <<>>,
     \* [
     <<"[">>,
     \* xs.
     <<"x", "s", ".">>,
     \* xs[
     <<"x", "s", "[">>,
     \* x = 
     <<"x", " ", "=", " ">>,
     \* [1][
     <<"[", "1", "]", "[">>,
     \* xs.take(2))
     <<"x", "s", ".", "t", "a", "k", "e", "(", "2", ")", ")">>,
     \* "a\"
     <<"\"", "a", "\\", "\"">>,
     \* [éé]
     <<"[", EAcute, EAcute, "]">>,
     \* ["éé", 1]
     <<"[", "\"", EAcute, EAcute, "\"", ",", " ", "1", "]">>,
     \* xs.filter(éé)
     <<"x", "s", ".", "f", "i", "l", "t", "e", "r", "(", EAcute, EAcute, ")">>,
     \* éé+foo
     <<EAcute, EAcute, "+", "f", "o", "o">>,
     \* [é][0]
     <<"[", EAcute, "]", "[", "0", "]">>,
     \* s = ["éé", 1]
     <<"s", " ", "=", " ", "[", "\"", EAcute, EAcute, "\"", ",", " ", "1", "]">>,
     \* é
     <<EAcute>>}

PublicRoutines ==
    {"infer_dot_receiver_type",
     "extract_local_bindings",
     "infer_rhs_type",
     "detect_literal_type",
     "infer_list_type",
     "infer_indexed_list_literal_type",
     "infer_tuple_type",
     "infer_method_chain_type",
     "infer_index_expr_type",
     "extract_receiver_expression"}

\* The environment the routines that take one are called with
SomeBindings == insert(<<>>, <<"x", "s">>, list_of(<<"I", "n", "t">>))

\* The call fn(text), a document being the one line text with the cursor
\* after it
call_public(fn, text) ==
    CASE fn = "infer_dot_receiver_type" ->
            infer_dot_receiver_type(<<>>, 0, text, NoEngine)
      [] fn = "extract_local_bindings" ->
            LET binds == extract_local_bindings(<<text>>, 1, NoEngine)
            IN  IF binds = Panic THEN Panic ELSE None
      [] fn = "infer_rhs_type" -> infer_rhs_type(text, NoEngine, SomeBindings)
      [] fn = "detect_literal_type" -> detect_literal_type(text)
      [] fn = "infer_list_type" -> infer_list_type(text)
      [] fn = "infer_indexed_list_literal_type" ->
            infer_indexed_list_literal_type(text)
      [] fn = "infer_tuple_type" -> infer_tuple_type(text)
      [] fn = "infer_method_chain_type" ->
            infer_method_chain_type(text, SomeBindings)
      [] fn = "infer_index_expr_type" ->
            infer_index_expr_type(text, SomeBindings)
      [] fn = "extract_receiver_expression" ->
            extract_receiver_expression(text)

\* ------------------------------------------------------------------------
\* The state machine: a request to the entry point, with the scan of
\* extract_local_bindings taken line by line, or a call of one routine
\* ------------------------------------------------------------------------

NoCall == [fn |-> "none"]

Init ==
    /\ pc = "idle"
    /\ content = <<>>
    /\ up_to_line = 0
    /\ engine = NoEngine
    /\ before_dot = <<>>
    /\ line_num = 0
    /\ bindings = <<>>
    /\ current_impl_type = None
    /\ call = NoCall
    /\ ret = None

\* infer_dot_receiver_type(content, cursor_line, before_dot, engine) enters
\* extract_local_bindings(content, cursor_line, engine)
StartScan ==
    /\ pc = "idle"
    /\ \E doc \in Documents, eng \in Engines :
          \E cursor \in 0..Len(doc) :
             /\ content' = doc
             /\ up_to_line' = cursor
             /\ engine' = eng
    /\ pc' = "scan"
    /\ line_num' = 0
    /\ bindings' = <<>>
    /\ current_impl_type' = None
    /\ call' = [fn |-> "infer_dot_receiver_type"]
    /\ UNCHANGED <<before_dot, ret>>

\* The loop variables after an iteration that left the scan in state after
Scanned(after) ==
    IF after.panic
    THEN /\ pc' = "done"
         /\ ret' = Panic
         /\ UNCHANGED <<bindings, current_impl_type, line_num>>
    ELSE /\ bindings' = after.bindings
         /\ current_impl_type' = after.impl
         /\ line_num' = line_num + 1
         /\ UNCHANGED <<pc, ret>>

\* One iteration of the loop over content.lines()
ScanLine ==
    /\ pc = "scan"
    /\ line_num < Len(content)
    /\ line_num <= up_to_line
    /\ Scanned(scan_line(content[line_num + 1],
                         is_current_line(line_num, up_to_line),
                         bindings, current_impl_type, engine))
    /\ UNCHANGED <<content, up_to_line, engine, before_dot, call>>

\* The loop ends (the lines are exhausted, or line_num > up_to_line) and
\* extract_local_bindings returns bindings
ScanDone ==
    /\ pc = "scan"
    /\ (line_num >= Len(content) \/ line_num > up_to_line)
    /\ pc' = "bound"
    /\ UNCHANGED <<content, up_to_line, engine, before_dot, line_num,
                   bindings, current_impl_type, call, ret>>

\* The environment after the lambda pass returned local_vars
with_lambda_params(binds, local_vars) ==
    IF local_vars = Panic THEN binds ELSE local_vars.v

\* The entry point returns after the lambda pass returned local_vars
Inferred(prefix, local_vars) ==
    /\ before_dot' = prefix
    /\ bindings' = with_lambda_params(bindings, local_vars)
    /\ ret' = infer_after_lambda_pass(content, prefix, engine, local_vars)

\* The rest of infer_dot_receiver_type: the lambda pass over before_dot and
\* the chain of strategies
InferDot ==
    /\ pc = "bound"
    /\ \E prefix \in PrefixPool :
          Inferred(prefix, extract_lambda_params_to_local_vars(prefix, bindings))
    /\ pc' = "done"
    /\ UNCHANGED <<content, up_to_line, engine, line_num, current_impl_type,
                   call>>

\* A call of one routine returns: call records the routine and its input
Returns(fn, input, result) ==
    /\ pc = "idle"
    /\ call' = [fn |-> fn, input |-> input]
    /\ ret' = result
    /\ pc' = "done"
    /\ UNCHANGED <<content, up_to_line, engine, before_dot, line_num,
                   bindings, current_impl_type>>

\* A call of infer_list_type on a list literal
CallListType ==
    \E term \in ListTerms(MaxNest) :
       Returns("infer_list_type", term, infer_list_type(term.text))

\* A call of infer_indexed_list_literal_type on a list literal followed by
\* index suffixes
CallIndexedLiteral ==
    \E term \in ListTerms(MaxNest), suffixes \in IndexSuffixes :
       Returns("infer_indexed_list_literal_type",
               [text |-> term.text \o cat_texts(suffixes),
                base |-> term.ruled.v,
                suffixes |-> Len(suffixes),
                opens |-> sum_opens(suffixes)],
               infer_indexed_list_literal_type(
                   term.text \o cat_texts(suffixes)))

\* A call of infer_tuple_type on a tuple literal
CallTupleType ==
    \E term \in TupleTerms :
       Returns("infer_tuple_type", term, infer_tuple_type(term.text))

\* A call of infer_method_chain_type on a chain of calls on xs, with xs
\* bound to a list type
CallMethodChain ==
    \E cs \in Chains, elem \in ElemTypes :
       Returns("infer_method_chain_type", chain_term(cs, elem),
               infer_method_chain_type(
                   chain_term(cs, elem).text,
                   insert(<<>>, <<"x", "s">>, list_of(elem))))

\* A call of one public routine on malformed text
CallMalformed ==
    \E fn \in PublicRoutines, text \in MalformedTexts :
       Returns("call_public", [routine |-> fn, text |-> text],
               call_public(fn, text))


\* ------------------------------------------------------------------------
\* Calls of infer_method_chain_type on one member of a base expression
\* ------------------------------------------------------------------------

\* Base expressions of a chain: the literals of the literal rules, and
\* identifiers
ChainBases ==
    {\* "ab"
     [text |-> <<"\"", "a", "b", "\"">>, kind |-> "string"],
     \* "a.b"
     [text |-> <<"\"", "a", ".", "b", "\"">>, kind |-> "string"],
     \* [1, 2]
     [text |-> <<"[", "1", ",", " ", "2", "]">>, kind |-> "list"],
     \* %{a: 1}
     [text |-> <<"%", "{", "a", ":", " ", "1", "}">>, kind |-> "map"],
     \* #{1}
     [text |-> <<"#", "{", "1", "}">>, kind |-> "set"],
     \* 42
     [text |-> <<"4", "2">>, kind |-> "int"],
     \* 3.14
     [text |-> <<"3", ".", "1", "4">>, kind |-> "float"],
     \* xs
     [text |-> <<"x", "s">>, kind |-> "identifier"],
     \* zs
     [text |-> <<"z", "s">>, kind |-> "identifier"]}

\* One member of the base: its text after the base, the member's name, and
\* whether an argument list in parentheses follows the name
MemberPool ==
    {\* .show()
     [text |-> <<".", "s", "h", "o", "w", "(", ")">>, name |-> <<"s", "h", "o", "w">>, parens |-> TRUE],
     \* .length()
     [text |-> <<".", "l", "e", "n", "g", "t", "h", "(", ")">>, name |-> <<"l", "e", "n", "g", "t", "h">>, parens |-> TRUE],
     \* .hash()
     [text |-> <<".", "h", "a", "s", "h", "(", ")">>, name |-> <<"h", "a", "s", "h">>, parens |-> TRUE],
     \* .head
     [text |-> <<".", "h", "e", "a", "d">>, name |-> <<"h", "e", "a", "d">>, parens |-> FALSE],
     \* .head()
     [text |-> <<".", "h", "e", "a", "d", "(", ")">>, name |-> <<"h", "e", "a", "d">>, parens |-> TRUE],
     \* .get(0)
     [text |-> <<".", "g", "e", "t", "(", "0", ")">>, name |-> <<"g", "e", "t">>, parens |-> TRUE]}

\* Environments of a chain: xs bound to a list type, or nothing bound
ChainEnvs ==
    {<<>>} \cup {insert(<<>>, <<"x", "s">>, list_of(elem)) : elem \in {tInt, tString}}

\* A call of infer_method_chain_type on a base followed by one member
CallChainOnBase ==
    \E base \in ChainBases, member \in MemberPool, env \in ChainEnvs :
       Returns("chain_on_base",
               [base |-> base, member |-> member, env |-> env],
               infer_method_chain_type(base.text \o member.text, env))

\* ------------------------------------------------------------------------
\* Calls of infer_dot_receiver_type on whole documents
\* ------------------------------------------------------------------------

\* An engine that is present and knows no constructor, type, signature,
\* field or expression
EmptyEngine ==
    [present |-> TRUE, constructors |-> <<>>, types |-> <<>>,
     signatures |-> <<>>, fields |-> <<>>, expr_types |-> <<>>]

EntryEngines == {NoEngine, EmptyEngine, LiveEngine}

\* Documents, each the sequence of its lines
EntryDocs ==
    {\* xs = [1, 2]
     <<<<"x", "s", " ", "=", " ", "[", "1", ",", " ", "2", "]">>>>,
     \* nums = [1, 2]
     <<<<"n", "u", "m", "s", " ", "=", " ", "[", "1", ",", " ", "2", "]">>>>,
     \* nums = ["a"]
     <<<<"n", "u", "m", "s", " ", "=", " ", "[", "\"", "a", "\"", "]">>>>,
     \* nums = [[1]]
     <<<<"n", "u", "m", "s", " ", "=", " ", "[", "[", "1", "]", "]">>>>,
     \* nums: List[Person] = load()
     <<<<"n", "u", "m", "s", ":", " ", "L", "i", "s", "t", "[", "P", "e", "r", "s", "o", "n", "]", " ", "=", " ", "l", "o", "a", "d", "(", ")">>>>,
     \* p = "s" / nums = [2.5]
     <<<<"p", " ", "=", " ", "\"", "s", "\"">>,
       <<"n", "u", "m", "s", " ", "=", " ", "[", "2", ".", "5", "]">>>>,
     \* Person: Show /   show(self) = self.name
     <<<<"P", "e", "r", "s", "o", "n", ":", " ", "S", "h", "o", "w">>,
       <<" ", " ", "s", "h", "o", "w", "(", "s", "e", "l", "f", ")", " ", "=", " ", "s", "e", "l", "f", ".", "n", "a", "m", "e">>>>,
     \* age = "x" / Person: Show /   show(self) = self.name
     <<<<"a", "g", "e", " ", "=", " ", "\"", "x", "\"">>,
       <<"P", "e", "r", "s", "o", "n", ":", " ", "S", "h", "o", "w">>,
       <<" ", " ", "s", "h", "o", "w", "(", "s", "e", "l", "f", ")", " ", "=", " ", "s", "e", "l", "f", ".", "n", "a", "m", "e">>>>,
     \* type Person = { name: String, age: Int } / p: Person = load()
     <<<<"t", "y", "p", "e", " ", "P", "e", "r", "s", "o", "n", " ", "=", " ", "{", " ", "n", "a", "m", "e", ":", " ", "S", "t", "r", "i", "n", "g", ",", " ", "a", "g", "e", ":", " ", "I", "n", "t", " ", "}">>,
       <<"p", ":", " ", "P", "e", "r", "s", "o", "n", " ", "=", " ", "l", "o", "a", "d", "(", ")">>>>,
     \* t = (1, "a")
     <<<<"t", " ", "=", " ", "(", "1", ",", " ", "\"", "a", "\"", ")">>>>}

\* Texts before the dot
EntryPrefixes ==
    {\* xs.head
     <<"x", "s", ".", "h", "e", "a", "d">>,
     \* xs.get(0)
     <<"x", "s", ".", "g", "e", "t", "(", "0", ")">>,
     \* nums.map(p => p
     <<"n", "u", "m", "s", ".", "m", "a", "p", "(", "p", " ", "=", ">", " ", "p">>,
     \* self.age
     <<"s", "e", "l", "f", ".", "a", "g", "e">>,
     \* y = self.age
     <<"y", " ", "=", " ", "s", "e", "l", "f", ".", "a", "g", "e">>,
     \* [self.age
     <<"[", "s", "e", "l", "f", ".", "a", "g", "e">>,
     \* p.name
     <<"p", ".", "n", "a", "m", "e">>,
     \* p.age
     <<"p", ".", "a", "g", "e">>,
     \* t.0
     <<"t", ".", "0">>,
     \* t.1
     <<"t", ".", "1">>,
     \* t.2
     <<"t", ".", "2">>}

\* A call of infer_dot_receiver_type on a document, with the cursor on any
\* line of it or on the line after its last
CallEntry ==
    \E doc \in EntryDocs, prefix \in EntryPrefixes, eng \in EntryEngines :
       \E cursor \in 0..Len(doc) :
          Returns("dot_receiver_on_document",
                  [doc |-> doc, cursor |-> cursor, prefix |-> prefix,
                   engine |-> eng],
                  infer_dot_receiver_type(doc, cursor, prefix, eng))

\* ------------------------------------------------------------------------
\* Calls of extract_receiver_expression
\* ------------------------------------------------------------------------

\* What comes first in the text: nothing, or identifiers, dots, balanced
\* groups and strings
LeadPool ==
    {\* (nothing)
     <<>>,
     \* a
     <<"a">>,
     \* a.b
     <<"a", ".", "b">>,
     \* f(x)
     <<"f", "(", "x", ")">>,
     \* "a b"
     <<"\"", "a", " ", "b", "\"">>}

\* What stands between the lead and the receiver: characters that are
\* neither identifier characters, dots, brackets nor quotes ("plain"), an
\* opener that nothing closes ("opener"), or nothing ("none")
SeparatorPool ==
    {\* ` `
     [text |-> <<" ">>, kind |-> "plain"],
     \* `+`
     [text |-> <<"+">>, kind |-> "plain"],
     \* ` + `
     [text |-> <<" ", "+", " ">>, kind |-> "plain"],
     \* `= `
     [text |-> <<"=", " ">>, kind |-> "plain"],
     \* `,`
     [text |-> <<",">>, kind |-> "plain"],
     \* ``
     [text |-> <<>>, kind |-> "none"],
     \* `(`
     [text |-> <<"(">>, kind |-> "opener"],
     \* `[`
     [text |-> <<"[">>, kind |-> "opener"],
     \* `{`
     [text |-> <<"{">>, kind |-> "opener"]}

\* Receivers: identifier characters, dots and balanced groups, with strings
\* inside the groups
ReceiverPool ==
    {\* x
     <<"x">>,
     \* x.y
     <<"x", ".", "y">>,
     \* [1,2,3]
     <<"[", "1", ",", "2", ",", "3", "]">>,
     \* f(a, b)
     <<"f", "(", "a", ",", " ", "b", ")">>,
     \* xs[0].y
     <<"x", "s", "[", "0", "]", ".", "y">>,
     \* f("a + b")
     <<"f", "(", "\"", "a", " ", "+", " ", "b", "\"", ")">>,
     \* g(")").h
     <<"g", "(", "\"", ")", "\"", ")", ".", "h">>,
     \* f("\" + ")
     <<"f", "(", "\"", "\\", "\"", " ", "+", " ", "\"", ")">>,
     \* {k: 'v v'}.m
     <<"{", "k", ":", " ", "'", "v", " ", "v", "'", "}", ".", "m">>}

\* A call of extract_receiver_expression on lead, separator and receiver
CallReceiver ==
    \E lead \in LeadPool, sep \in SeparatorPool, receiver \in ReceiverPool :
       Returns("extract_receiver_expression",
               [lead |-> lead, sep |-> sep, receiver |-> receiver,
                text |-> lead \o sep.text \o receiver],
               extract_receiver_expression(lead \o sep.text \o receiver))

\* ------------------------------------------------------------------------
\* Calls of detect_literal_type
\* ------------------------------------------------------------------------

\* Expressions without blanks around them, each with the shape it was
\* written in: a string, a list, a list followed at once by `[`
\* ("indexed"), a map, a set, a number with or without a dot after one
\* optional minus sign, or none of these ("other")
LiteralPool ==
    {\* "abc"
     [text |-> <<"\"", "a", "b", "c", "\"">>, shape |-> "String"],
     \* 'c'
     [text |-> <<"'", "c", "'">>, shape |-> "String"],
     \* "[1]"
     [text |-> <<"\"", "[", "1", "]", "\"">>, shape |-> "String"],
     \* "%{"
     [text |-> <<"\"", "%", "{", "\"">>, shape |-> "String"],
     \* "42
     [text |-> <<"\"", "4", "2">>, shape |-> "String"],
     \* [1, 2]
     [text |-> <<"[", "1", ",", " ", "2", "]">>, shape |-> "List"],
     \* [[1], [2]]
     [text |-> <<"[", "[", "1", "]", ",", " ", "[", "2", "]", "]">>, shape |-> "List"],
     \* [1.5]
     [text |-> <<"[", "1", ".", "5", "]">>, shape |-> "List"],
     \* [1
     [text |-> <<"[", "1">>, shape |-> "List"],
     \* []
     [text |-> <<"[", "]">>, shape |-> "List"],
     \* [1] [0]
     [text |-> <<"[", "1", "]", " ", "[", "0", "]">>, shape |-> "List"],
     \* [1].x
     [text |-> <<"[", "1", "]", ".", "x">>, shape |-> "List"],
     \* [[1]
     [text |-> <<"[", "[", "1", "]">>, shape |-> "List"],
     \* [1][0]
     [text |-> <<"[", "1", "]", "[", "0", "]">>, shape |-> "indexed"],
     \* [[1]][0][0]
     [text |-> <<"[", "[", "1", "]", "]", "[", "0", "]", "[", "0", "]">>, shape |-> "indexed"],
     \* ["a"][i]
     [text |-> <<"[", "\"", "a", "\"", "]", "[", "i", "]">>, shape |-> "indexed"],
     \* [[1], [2]][
     [text |-> <<"[", "[", "1", "]", ",", " ", "[", "2", "]", "]", "[">>, shape |-> "indexed"],
     \* %{a: 1}
     [text |-> <<"%", "{", "a", ":", " ", "1", "}">>, shape |-> "Map"],
     \* %{1.5}
     [text |-> <<"%", "{", "1", ".", "5", "}">>, shape |-> "Map"],
     \* %{
     [text |-> <<"%", "{">>, shape |-> "Map"],
     \* #{1}
     [text |-> <<"#", "{", "1", "}">>, shape |-> "Set"],
     \* #{
     [text |-> <<"#", "{">>, shape |-> "Set"],
     \* 42
     [text |-> <<"4", "2">>, shape |-> "Int"],
     \* -42
     [text |-> <<"-", "4", "2">>, shape |-> "Int"],
     \* 0
     [text |-> <<"0">>, shape |-> "Int"],
     \* 4x
     [text |-> <<"4", "x">>, shape |-> "Int"],
     \* -7 + "a"
     [text |-> <<"-", "7", " ", "+", " ", "\"", "a", "\"">>, shape |-> "Int"],
     \* 3.14
     [text |-> <<"3", ".", "1", "4">>, shape |-> "Float"],
     \* -3.14
     [text |-> <<"-", "3", ".", "1", "4">>, shape |-> "Float"],
     \* 1.foo
     [text |-> <<"1", ".", "f", "o", "o">>, shape |-> "Float"],
     \* 4.
     [text |-> <<"4", ".">>, shape |-> "Float"],
     \* 2 + x.y
     [text |-> <<"2", " ", "+", " ", "x", ".", "y">>, shape |-> "Float"],
     \* foo
     [text |-> <<"f", "o", "o">>, shape |-> "other"],
     \* (empty)
     [text |-> <<>>, shape |-> "other"],
     \* -
     [text |-> <<"-">>, shape |-> "other"],
     \* --4
     [text |-> <<"-", "-", "4">>, shape |-> "other"],
     \* -foo
     [text |-> <<"-", "f", "o", "o">>, shape |-> "other"],
     \* -"a"
     [text |-> <<"-", "\"", "a", "\"">>, shape |-> "other"],
     \* -[1]
     [text |-> <<"-", "[", "1", "]">>, shape |-> "other"],
     \* .5
     [text |-> <<".", "5">>, shape |-> "other"],
     \* %x
     [text |-> <<"%", "x">>, shape |-> "other"],
     \* #x
     [text |-> <<"#", "x">>, shape |-> "other"],
     \* {a}
     [text |-> <<"{", "a", "}">>, shape |-> "other"],
     \* x1
     [text |-> <<"x", "1">>, shape |-> "other"],
     \* (1, 2)
     [text |-> <<"(", "1", ",", " ", "2", ")">>, shape |-> "other"],
     \* true
     [text |-> <<"t", "r", "u", "e">>, shape |-> "other"]}

\* Blanks around an expression
PadPool == {<<>>, <<" ">>, <<" ", " ">>}

\* A call of detect_literal_type on an expression with blanks around it
CallLiteralType ==
    \E lit \in LiteralPool, before \in PadPool, after \in PadPool :
       Returns("detect_literal_type",
               [text |-> before \o lit.text \o after, shape |-> lit.shape],
               detect_literal_type(before \o lit.text \o after))

\* ------------------------------------------------------------------------
\* Calls of infer_rhs_type
\* ------------------------------------------------------------------------

\* Right-hand sides
RhsPool ==
    {\* "a".length()
     <<"\"", "a", "\"", ".", "l", "e", "n", "g", "t", "h", "(", ")">>,
     \* "a"[0].length()
     <<"\"", "a", "\"", "[", "0", "]", ".", "l", "e", "n", "g", "t", "h", "(", ")">>,
     \* [1].show()
     <<"[", "1", "]", ".", "s", "h", "o", "w", "(", ")">>,
     \* xs[0].show()
     <<"x", "s", "[", "0", "]", ".", "s", "h", "o", "w", "(", ")">>,
     \* xs.map(f)[0]
     <<"x", "s", ".", "m", "a", "p", "(", "f", ")", "[", "0", "]">>,
     \* xs.get(0)
     <<"x", "s", ".", "g", "e", "t", "(", "0", ")">>,
     \* xs[0]
     <<"x", "s", "[", "0", "]">>,
     \* xs[0][0]
     <<"x", "s", "[", "0", "]", "[", "0", "]">>,
     \* "a[0]"
     <<"\"", "a", "[", "0", "]", "\"">>,
     \* (xs[0], 1)
     <<"(", "x", "s", "[", "0", "]", ",", " ", "1", ")">>,
     \* [1, 2]
     <<"[", "1", ",", " ", "2", "]">>,
     \* [[1]][0]
     <<"[", "[", "1", "]", "]", "[", "0", "]">>,
     \* [1] ++ parse("1")
     <<"[", "1", "]", " ", "+", "+", " ", "p", "a", "r", "s", "e", "(", "\"", "1", "\"", ")">>,
     \* "hello"
     <<"\"", "h", "e", "l", "l", "o", "\"">>,
     \* %{a: 1}
     <<"%", "{", "a", ":", " ", "1", "}">>,
     \* #{1}
     <<"#", "{", "1", "}">>,
     \* (1, "a")
     <<"(", "1", ",", " ", "\"", "a", "\"", ")">>,
     \* (1, 2).show()
     <<"(", "1", ",", " ", "2", ")", ".", "s", "h", "o", "w", "(", ")">>,
     \* (f(1))
     <<"(", "f", "(", "1", ")", ")">>,
     \* Circle(1)
     <<"C", "i", "r", "c", "l", "e", "(", "1", ")">>,
     \* Circle
     <<"C", "i", "r", "c", "l", "e">>,
     \* Person
     <<"P", "e", "r", "s", "o", "n">>,
     \* Point(1, 2)
     <<"P", "o", "i", "n", "t", "(", "1", ",", " ", "2", ")">>,
     \* Point
     <<"P", "o", "i", "n", "t">>,
     \* Foo(x: 1)
     <<"F", "o", "o", "(", "x", ":", " ", "1", ")">>,
     \* Foo(1)
     <<"F", "o", "o", "(", "1", ")">>,
     \* Foo (1)
     <<"F", "o", "o", " ", "(", "1", ")">>,
     \* Foo
     <<"F", "o", "o">>,
     \* Foo + 1
     <<"F", "o", "o", " ", "+", " ", "1">>,
     \* Foo.bar(1)
     <<"F", "o", "o", ".", "b", "a", "r", "(", "1", ")">>,
     \* 42
     <<"4", "2">>,
     \* -
     <<"-">>,
     \* 1-2
     <<"1", "-", "2">>,
     \* 3.14
     <<"3", ".", "1", "4">>,
     \* .
     <<".">>,
     \* 1.5.2
     <<"1", ".", "5", ".", "2">>,
     \* parse("1")
     <<"p", "a", "r", "s", "e", "(", "\"", "1", "\"", ")">>,
     \* parse(x.y)
     <<"p", "a", "r", "s", "e", "(", "x", ".", "y", ")">>,
     \* identity(xs)
     <<"i", "d", "e", "n", "t", "i", "t", "y", "(", "x", "s", ")">>,
     \* identity(42)
     <<"i", "d", "e", "n", "t", "i", "t", "y", "(", "4", "2", ")">>,
     \* unknown(1)
     <<"u", "n", "k", "n", "o", "w", "n", "(", "1", ")">>,
     \* foo
     <<"f", "o", "o">>,
     \* (empty)
     <<>>,
     \*   42  
     <<" ", " ", "4", "2", " ", " ">>,
     \* Circle.area()
     <<"C", "i", "r", "c", "l", "e", ".", "a", "r", "e", "a", "(", ")">>,
     \* parse [0]
     <<"p", "a", "r", "s", "e", " ", "[", "0", "]">>,
     \* xs(1)
     <<"x", "s", "(", "1", ")">>,
     \* %{a: f(x.y)}
     <<"%", "{", "a", ":", " ", "f", "(", "x", ".", "y", ")", "}">>,
     \* 1.max(2)
     <<"1", ".", "m", "a", "x", "(", "2", ")">>,
     \* (a.b(), 1)
     <<"(", "a", ".", "b", "(", ")", ",", " ", "1", ")">>}

\* A call of infer_rhs_type on a right-hand side
CallRhsType ==
    \E text \in RhsPool, eng \in EntryEngines, env \in ChainEnvs :
       Returns("infer_rhs_type",
               [text |-> text, engine |-> eng, env |-> env],
               infer_rhs_type(text, eng, env))

\* ------------------------------------------------------------------------
\* Calls of infer_index_expr_type
\* ------------------------------------------------------------------------

\* The most `List[` layers of the type an indexed identifier is bound to
MaxLayers == 3

\* What the layers are around: a primitive, a nominal type, a tuple, and
\* the bare List
LayerElems == {tInt, <<"P", "e", "r", "s", "o", "n">>, <<"(", "I", "n", "t", ",", " ", "S", "t", "r", "i", "n", "g", ")">>, tList}

RECURSIVE nest_list(_, _)
\* elem inside n layers of `List[`..`]`
nest_list(elem, n) == IF n = 0 THEN elem ELSE list_of(nest_list(elem, n - 1))

\* A call of infer_index_expr_type on an identifier followed by index
\* suffixes, with xs bound to a type of layers around elem and zs unbound
CallIndexExpr ==
    \E ident \in {<<"x", "s">>, <<"z", "s">>}, suffixes \in IndexSuffixes,
       elem \in LayerElems, layers \in 0..MaxLayers :
       Returns("infer_index_expr_type",
               [ident |-> ident,
                text |-> ident \o cat_texts(suffixes),
                opens |-> sum_opens(suffixes),
                elem |-> elem, layers |-> layers],
               infer_index_expr_type(
                   ident \o cat_texts(suffixes),
                   insert(<<>>, <<"x", "s">>, nest_list(elem, layers))))

\* ------------------------------------------------------------------------
\* Calls of extract_lambda_params_to_local_vars
\* ------------------------------------------------------------------------

\* Prefixes with lambdas, each with the lambdas written in it: the
\* parameter, the receiver of the call the lambda is an argument of, and
\* the method called
LambdaPrefixes ==
    {
     \* xs.map(p => p
     [text |-> <<"x", "s", ".", "m", "a", "p", "(", "p", " ", "=", ">", " ", "p">>,
      lambdas |-> {[param |-> <<"p">>, receiver |-> <<"x", "s">>, method |-> <<"m", "a", "p">>]}],
     \* xs.map(x => x
     [text |-> <<"x", "s", ".", "m", "a", "p", "(", "x", " ", "=", ">", " ", "x">>,
      lambdas |-> {[param |-> <<"x">>, receiver |-> <<"x", "s">>, method |-> <<"m", "a", "p">>]}],
     \* xs.map(p => ys.filter(p => p
     [text |-> <<"x", "s", ".", "m", "a", "p", "(", "p", " ", "=", ">", " ", "y", "s", ".", "f", "i", "l", "t", "e", "r", "(", "p", " ", "=", ">", " ", "p">>,
      lambdas |-> {[param |-> <<"p">>, receiver |-> <<"x", "s">>, method |-> <<"m", "a", "p">>],
                   [param |-> <<"p">>, receiver |-> <<"y", "s">>, method |-> <<"f", "i", "l", "t", "e", "r">>]}],
     \* xs.map(x => ys.filter(p => p
     [text |-> <<"x", "s", ".", "m", "a", "p", "(", "x", " ", "=", ">", " ", "y", "s", ".", "f", "i", "l", "t", "e", "r", "(", "p", " ", "=", ">", " ", "p">>,
      lambdas |-> {[param |-> <<"x">>, receiver |-> <<"x", "s">>, method |-> <<"m", "a", "p">>],
                   [param |-> <<"p">>, receiver |-> <<"y", "s">>, method |-> <<"f", "i", "l", "t", "e", "r">>]}],
     \* xs.map(p => p.filter(q => q
     [text |-> <<"x", "s", ".", "m", "a", "p", "(", "p", " ", "=", ">", " ", "p", ".", "f", "i", "l", "t", "e", "r", "(", "q", " ", "=", ">", " ", "q">>,
      lambdas |-> {[param |-> <<"p">>, receiver |-> <<"x", "s">>, method |-> <<"m", "a", "p">>],
                   [param |-> <<"q">>, receiver |-> <<"p">>, method |-> <<"f", "i", "l", "t", "e", "r">>]}],
     \* zs.map(q => q
     [text |-> <<"z", "s", ".", "m", "a", "p", "(", "q", " ", "=", ">", " ", "q">>,
      lambdas |-> {[param |-> <<"q">>, receiver |-> <<"z", "s">>, method |-> <<"m", "a", "p">>]}],
     \* xs.frob(p => p
     [text |-> <<"x", "s", ".", "f", "r", "o", "b", "(", "p", " ", "=", ">", " ", "p">>,
      lambdas |-> {[param |-> <<"p">>, receiver |-> <<"x", "s">>, method |-> <<"f", "r", "o", "b">>]}],
     \* xs.filter(f)
     [text |-> <<"x", "s", ".", "f", "i", "l", "t", "e", "r", "(", "f", ")">>,
      lambdas |-> {}],
     \* xs.map(p=>p
     [text |-> <<"x", "s", ".", "m", "a", "p", "(", "p", "=", ">", "p">>,
      lambdas |-> {[param |-> <<"p">>, receiver |-> <<"x", "s">>, method |-> <<"m", "a", "p">>]}],
     \* (p => p
     [text |-> <<"(", "p", " ", "=", ">", " ", "p">>,
      lambdas |-> {[param |-> <<"p">>, receiver |-> <<>>, method |-> <<>>]}]
    }

\* The environments the pass starts from
LambdaEnvs ==
    {
     \* nothing bound
     <<>>,
     \* xs: List[Int]
     insert(<<>>, <<"x", "s">>, <<"L", "i", "s", "t", "[", "I", "n", "t", "]">>),
     \* xs: List[Int], ys: List[String]
     insert(insert(<<>>, <<"x", "s">>, <<"L", "i", "s", "t", "[", "I", "n", "t", "]">>), <<"y", "s">>, <<"L", "i", "s", "t", "[", "S", "t", "r", "i", "n", "g", "]">>),
     \* xs: List[Int], ys: List[String], p: Bool
     insert(insert(insert(<<>>, <<"x", "s">>, <<"L", "i", "s", "t", "[", "I", "n", "t", "]">>), <<"y", "s">>, <<"L", "i", "s", "t", "[", "S", "t", "r", "i", "n", "g", "]">>), <<"p">>, <<"B", "o", "o", "l">>),
     \* xs: List[Int], ys: List[String], x: String
     insert(insert(insert(<<>>, <<"x", "s">>, <<"L", "i", "s", "t", "[", "I", "n", "t", "]">>), <<"y", "s">>, <<"L", "i", "s", "t", "[", "S", "t", "r", "i", "n", "g", "]">>), <<"x">>, <<"S", "t", "r", "i", "n", "g">>),
     \* xs: List[List[Int]]
     insert(<<>>, <<"x", "s">>, <<"L", "i", "s", "t", "[", "L", "i", "s", "t", "[", "I", "n", "t", "]", "]">>),
     \* xs: Option[Int], q: Person
     insert(insert(<<>>, <<"x", "s">>, <<"O", "p", "t", "i", "o", "n", "[", "I", "n", "t", "]">>), <<"q">>, <<"P", "e", "r", "s", "o", "n">>)
    }

\* A call of extract_lambda_params_to_local_vars on a prefix and an
\* environment
CallLambdaPass ==
    \E prefix \in LambdaPrefixes, local_vars \in LambdaEnvs :
       Returns("extract_lambda_params_to_local_vars",
               [prefix |-> prefix.text, lambdas |-> prefix.lambdas,
                local_vars |-> local_vars],
               extract_lambda_params_to_local_vars(prefix.text, local_vars))

\* ------------------------------------------------------------------------
\* Calls of infer_lambda_param_type_for_method
\* ------------------------------------------------------------------------

\* Receiver types: each container around a type T (and E), the bare List,
\* nominal types whose names begin with the name of a container, and types
\* that are no container
LambdaReceivers ==
    {
     \* List[Int]
     [text |-> <<"L", "i", "s", "t", "[", "I", "n", "t", "]">>, kind |-> "List",
      T |-> <<"I", "n", "t">>, E |-> <<>>],
     \* List[String]
     [text |-> <<"L", "i", "s", "t", "[", "S", "t", "r", "i", "n", "g", "]">>, kind |-> "List",
      T |-> <<"S", "t", "r", "i", "n", "g">>, E |-> <<>>],
     \* List[Person]
     [text |-> <<"L", "i", "s", "t", "[", "P", "e", "r", "s", "o", "n", "]">>, kind |-> "List",
      T |-> <<"P", "e", "r", "s", "o", "n">>, E |-> <<>>],
     \* List[List[Int]]
     [text |-> <<"L", "i", "s", "t", "[", "L", "i", "s", "t", "[", "I", "n", "t", "]", "]">>, kind |-> "List",
      T |-> <<"L", "i", "s", "t", "[", "I", "n", "t", "]">>, E |-> <<>>],
     \* List[(Int, String)]
     [text |-> <<"L", "i", "s", "t", "[", "(", "I", "n", "t", ",", " ", "S", "t", "r", "i", "n", "g", ")", "]">>, kind |-> "List",
      T |-> <<"(", "I", "n", "t", ",", " ", "S", "t", "r", "i", "n", "g", ")">>, E |-> <<>>],
     \* List[Map[String, Int]]
     [text |-> <<"L", "i", "s", "t", "[", "M", "a", "p", "[", "S", "t", "r", "i", "n", "g", ",", " ", "I", "n", "t", "]", "]">>, kind |-> "List",
      T |-> <<"M", "a", "p", "[", "S", "t", "r", "i", "n", "g", ",", " ", "I", "n", "t", "]">>, E |-> <<>>],
     \* List[Result[Int, String]]
     [text |-> <<"L", "i", "s", "t", "[", "R", "e", "s", "u", "l", "t", "[", "I", "n", "t", ",", " ", "S", "t", "r", "i", "n", "g", "]", "]">>, kind |-> "List",
      T |-> <<"R", "e", "s", "u", "l", "t", "[", "I", "n", "t", ",", " ", "S", "t", "r", "i", "n", "g", "]">>, E |-> <<>>],
     \* Option[Int]
     [text |-> <<"O", "p", "t", "i", "o", "n", "[", "I", "n", "t", "]">>, kind |-> "Option",
      T |-> <<"I", "n", "t">>, E |-> <<>>],
     \* Option[String]
     [text |-> <<"O", "p", "t", "i", "o", "n", "[", "S", "t", "r", "i", "n", "g", "]">>, kind |-> "Option",
      T |-> <<"S", "t", "r", "i", "n", "g">>, E |-> <<>>],
     \* Option[Person]
     [text |-> <<"O", "p", "t", "i", "o", "n", "[", "P", "e", "r", "s", "o", "n", "]">>, kind |-> "Option",
      T |-> <<"P", "e", "r", "s", "o", "n">>, E |-> <<>>],
     \* Option[List[Int]]
     [text |-> <<"O", "p", "t", "i", "o", "n", "[", "L", "i", "s", "t", "[", "I", "n", "t", "]", "]">>, kind |-> "Option",
      T |-> <<"L", "i", "s", "t", "[", "I", "n", "t", "]">>, E |-> <<>>],
     \* Option[(Int, String)]
     [text |-> <<"O", "p", "t", "i", "o", "n", "[", "(", "I", "n", "t", ",", " ", "S", "t", "r", "i", "n", "g", ")", "]">>, kind |-> "Option",
      T |-> <<"(", "I", "n", "t", ",", " ", "S", "t", "r", "i", "n", "g", ")">>, E |-> <<>>],
     \* Option[Map[String, Int]]
     [text |-> <<"O", "p", "t", "i", "o", "n", "[", "M", "a", "p", "[", "S", "t", "r", "i", "n", "g", ",", " ", "I", "n", "t", "]", "]">>, kind |-> "Option",
      T |-> <<"M", "a", "p", "[", "S", "t", "r", "i", "n", "g", ",", " ", "I", "n", "t", "]">>, E |-> <<>>],
     \* Option[Result[Int, String]]
     [text |-> <<"O", "p", "t", "i", "o", "n", "[", "R", "e", "s", "u", "l", "t", "[", "I", "n", "t", ",", " ", "S", "t", "r", "i", "n", "g", "]", "]">>, kind |-> "Option",
      T |-> <<"R", "e", "s", "u", "l", "t", "[", "I", "n", "t", ",", " ", "S", "t", "r", "i", "n", "g", "]">>, E |-> <<>>],
     \* Result[Int, String]
     [text |-> <<"R", "e", "s", "u", "l", "t", "[", "I", "n", "t", ",", " ", "S", "t", "r", "i", "n", "g", "]">>, kind |-> "Result",
      T |-> <<"I", "n", "t">>, E |-> <<"S", "t", "r", "i", "n", "g">>],
     \* Result[Int, (Int, String)]
     [text |-> <<"R", "e", "s", "u", "l", "t", "[", "I", "n", "t", ",", " ", "(", "I", "n", "t", ",", " ", "S", "t", "r", "i", "n", "g", ")", "]">>, kind |-> "Result",
      T |-> <<"I", "n", "t">>, E |-> <<"(", "I", "n", "t", ",", " ", "S", "t", "r", "i", "n", "g", ")">>],
     \* Result[Int, List[Int]]
     [text |-> <<"R", "e", "s", "u", "l", "t", "[", "I", "n", "t", ",", " ", "L", "i", "s", "t", "[", "I", "n", "t", "]", "]">>, kind |-> "Result",
      T |-> <<"I", "n", "t">>, E |-> <<"L", "i", "s", "t", "[", "I", "n", "t", "]">>],
     \* Result[String, String]
     [text |-> <<"R", "e", "s", "u", "l", "t", "[", "S", "t", "r", "i", "n", "g", ",", " ", "S", "t", "r", "i", "n", "g", "]">>, kind |-> "Result",
      T |-> <<"S", "t", "r", "i", "n", "g">>, E |-> <<"S", "t", "r", "i", "n", "g">>],
     \* Result[String, (Int, String)]
     [text |-> <<"R", "e", "s", "u", "l", "t", "[", "S", "t", "r", "i", "n", "g", ",", " ", "(", "I", "n", "t", ",", " ", "S", "t", "r", "i", "n", "g", ")", "]">>, kind |-> "Result",
      T |-> <<"S", "t", "r", "i", "n", "g">>, E |-> <<"(", "I", "n", "t", ",", " ", "S", "t", "r", "i", "n", "g", ")">>],
     \* Result[String, List[Int]]
     [text |-> <<"R", "e", "s", "u", "l", "t", "[", "S", "t", "r", "i", "n", "g", ",", " ", "L", "i", "s", "t", "[", "I", "n", "t", "]", "]">>, kind |-> "Result",
      T |-> <<"S", "t", "r", "i", "n", "g">>, E |-> <<"L", "i", "s", "t", "[", "I", "n", "t", "]">>],
     \* Result[Person, String]
     [text |-> <<"R", "e", "s", "u", "l", "t", "[", "P", "e", "r", "s", "o", "n", ",", " ", "S", "t", "r", "i", "n", "g", "]">>, kind |-> "Result",
      T |-> <<"P", "e", "r", "s", "o", "n">>, E |-> <<"S", "t", "r", "i", "n", "g">>],
     \* Result[Person, (Int, String)]
     [text |-> <<"R", "e", "s", "u", "l", "t", "[", "P", "e", "r", "s", "o", "n", ",", " ", "(", "I", "n", "t", ",", " ", "S", "t", "r", "i", "n", "g", ")", "]">>, kind |-> "Result",
      T |-> <<"P", "e", "r", "s", "o", "n">>, E |-> <<"(", "I", "n", "t", ",", " ", "S", "t", "r", "i", "n", "g", ")">>],
     \* Result[Person, List[Int]]
     [text |-> <<"R", "e", "s", "u", "l", "t", "[", "P", "e", "r", "s", "o", "n", ",", " ", "L", "i", "s", "t", "[", "I", "n", "t", "]", "]">>, kind |-> "Result",
      T |-> <<"P", "e", "r", "s", "o", "n">>, E |-> <<"L", "i", "s", "t", "[", "I", "n", "t", "]">>],
     \* Result[List[Int], String]
     [text |-> <<"R", "e", "s", "u", "l", "t", "[", "L", "i", "s", "t", "[", "I", "n", "t", "]", ",", " ", "S", "t", "r", "i", "n", "g", "]">>, kind |-> "Result",
      T |-> <<"L", "i", "s", "t", "[", "I", "n", "t", "]">>, E |-> <<"S", "t", "r", "i", "n", "g">>],
     \* Result[List[Int], (Int, String)]
     [text |-> <<"R", "e", "s", "u", "l", "t", "[", "L", "i", "s", "t", "[", "I", "n", "t", "]", ",", " ", "(", "I", "n", "t", ",", " ", "S", "t", "r", "i", "n", "g", ")", "]">>, kind |-> "Result",
      T |-> <<"L", "i", "s", "t", "[", "I", "n", "t", "]">>, E |-> <<"(", "I", "n", "t", ",", " ", "S", "t", "r", "i", "n", "g", ")">>],
     \* Result[List[Int], List[Int]]
     [text |-> <<"R", "e", "s", "u", "l", "t", "[", "L", "i", "s", "t", "[", "I", "n", "t", "]", ",", " ", "L", "i", "s", "t", "[", "I", "n", "t", "]", "]">>, kind |-> "Result",
      T |-> <<"L", "i", "s", "t", "[", "I", "n", "t", "]">>, E |-> <<"L", "i", "s", "t", "[", "I", "n", "t", "]">>],
     \* Result[(Int, String), String]
     [text |-> <<"R", "e", "s", "u", "l", "t", "[", "(", "I", "n", "t", ",", " ", "S", "t", "r", "i", "n", "g", ")", ",", " ", "S", "t", "r", "i", "n", "g", "]">>, kind |-> "Result",
      T |-> <<"(", "I", "n", "t", ",", " ", "S", "t", "r", "i", "n", "g", ")">>, E |-> <<"S", "t", "r", "i", "n", "g">>],
     \* Result[(Int, String), (Int, String)]
     [text |-> <<"R", "e", "s", "u", "l", "t", "[", "(", "I", "n", "t", ",", " ", "S", "t", "r", "i", "n", "g", ")", ",", " ", "(", "I", "n", "t", ",", " ", "S", "t", "r", "i", "n", "g", ")", "]">>, kind |-> "Result",
      T |-> <<"(", "I", "n", "t", ",", " ", "S", "t", "r", "i", "n", "g", ")">>, E |-> <<"(", "I", "n", "t", ",", " ", "S", "t", "r", "i", "n", "g", ")">>],
     \* Result[(Int, String), List[Int]]
     [text |-> <<"R", "e", "s", "u", "l", "t", "[", "(", "I", "n", "t", ",", " ", "S", "t", "r", "i", "n", "g", ")", ",", " ", "L", "i", "s", "t", "[", "I", "n", "t", "]", "]">>, kind |-> "Result",
      T |-> <<"(", "I", "n", "t", ",", " ", "S", "t", "r", "i", "n", "g", ")">>, E |-> <<"L", "i", "s", "t", "[", "I", "n", "t", "]">>],
     \* Result[Map[String, Int], String]
     [text |-> <<"R", "e", "s", "u", "l", "t", "[", "M", "a", "p", "[", "S", "t", "r", "i", "n", "g", ",", " ", "I", "n", "t", "]", ",", " ", "S", "t", "r", "i", "n", "g", "]">>, kind |-> "Result",
      T |-> <<"M", "a", "p", "[", "S", "t", "r", "i", "n", "g", ",", " ", "I", "n", "t", "]">>, E |-> <<"S", "t", "r", "i", "n", "g">>],
     \* Result[Map[String, Int], (Int, String)]
     [text |-> <<"R", "e", "s", "u", "l", "t", "[", "M", "a", "p", "[", "S", "t", "r", "i", "n", "g", ",", " ", "I", "n", "t", "]", ",", " ", "(", "I", "n", "t", ",", " ", "S", "t", "r", "i", "n", "g", ")", "]">>, kind |-> "Result",
      T |-> <<"M", "a", "p", "[", "S", "t", "r", "i", "n", "g", ",", " ", "I", "n", "t", "]">>, E |-> <<"(", "I", "n", "t", ",", " ", "S", "t", "r", "i", "n", "g", ")">>],
     \* Result[Map[String, Int], List[Int]]
     [text |-> <<"R", "e", "s", "u", "l", "t", "[", "M", "a", "p", "[", "S", "t", "r", "i", "n", "g", ",", " ", "I", "n", "t", "]", ",", " ", "L", "i", "s", "t", "[", "I", "n", "t", "]", "]">>, kind |-> "Result",
      T |-> <<"M", "a", "p", "[", "S", "t", "r", "i", "n", "g", ",", " ", "I", "n", "t", "]">>, E |-> <<"L", "i", "s", "t", "[", "I", "n", "t", "]">>],
     \* Result[Result[Int, String], String]
     [text |-> <<"R", "e", "s", "u", "l", "t", "[", "R", "e", "s", "u", "l", "t", "[", "I", "n", "t", ",", " ", "S", "t", "r", "i", "n", "g", "]", ",", " ", "S", "t", "r", "i", "n", "g", "]">>, kind |-> "Result",
      T |-> <<"R", "e", "s", "u", "l", "t", "[", "I", "n", "t", ",", " ", "S", "t", "r", "i", "n", "g", "]">>, E |-> <<"S", "t", "r", "i", "n", "g">>],
     \* Result[Result[Int, String], (Int, String)]
     [text |-> <<"R", "e", "s", "u", "l", "t", "[", "R", "e", "s", "u", "l", "t", "[", "I", "n", "t", ",", " ", "S", "t", "r", "i", "n", "g", "]", ",", " ", "(", "I", "n", "t", ",", " ", "S", "t", "r", "i", "n", "g", ")", "]">>, kind |-> "Result",
      T |-> <<"R", "e", "s", "u", "l", "t", "[", "I", "n", "t", ",", " ", "S", "t", "r", "i", "n", "g", "]">>, E |-> <<"(", "I", "n", "t", ",", " ", "S", "t", "r", "i", "n", "g", ")">>],
     \* Result[Result[Int, String], List[Int]]
     [text |-> <<"R", "e", "s", "u", "l", "t", "[", "R", "e", "s", "u", "l", "t", "[", "I", "n", "t", ",", " ", "S", "t", "r", "i", "n", "g", "]", ",", " ", "L", "i", "s", "t", "[", "I", "n", "t", "]", "]">>, kind |-> "Result",
      T |-> <<"R", "e", "s", "u", "l", "t", "[", "I", "n", "t", ",", " ", "S", "t", "r", "i", "n", "g", "]">>, E |-> <<"L", "i", "s", "t", "[", "I", "n", "t", "]">>],
     \* Map
     [text |-> <<"M", "a", "p">>, kind |-> "Map",
      T |-> <<>>, E |-> <<>>],
     \* Map[String, Int]
     [text |-> <<"M", "a", "p", "[", "S", "t", "r", "i", "n", "g", ",", " ", "I", "n", "t", "]">>, kind |-> "Map",
      T |-> <<"S", "t", "r", "i", "n", "g">>, E |-> <<"I", "n", "t">>],
     \* Map[Int, List[Int]]
     [text |-> <<"M", "a", "p", "[", "I", "n", "t", ",", " ", "L", "i", "s", "t", "[", "I", "n", "t", "]", "]">>, kind |-> "Map",
      T |-> <<"I", "n", "t">>, E |-> <<"L", "i", "s", "t", "[", "I", "n", "t", "]">>],
     \* Set[Int]
     [text |-> <<"S", "e", "t", "[", "I", "n", "t", "]">>, kind |-> "Set",
      T |-> <<"I", "n", "t">>, E |-> <<>>],
     \* Set[String]
     [text |-> <<"S", "e", "t", "[", "S", "t", "r", "i", "n", "g", "]">>, kind |-> "Set",
      T |-> <<"S", "t", "r", "i", "n", "g">>, E |-> <<>>],
     \* Set[Person]
     [text |-> <<"S", "e", "t", "[", "P", "e", "r", "s", "o", "n", "]">>, kind |-> "Set",
      T |-> <<"P", "e", "r", "s", "o", "n">>, E |-> <<>>],
     \* Set[List[Int]]
     [text |-> <<"S", "e", "t", "[", "L", "i", "s", "t", "[", "I", "n", "t", "]", "]">>, kind |-> "Set",
      T |-> <<"L", "i", "s", "t", "[", "I", "n", "t", "]">>, E |-> <<>>],
     \* Set[(Int, String)]
     [text |-> <<"S", "e", "t", "[", "(", "I", "n", "t", ",", " ", "S", "t", "r", "i", "n", "g", ")", "]">>, kind |-> "Set",
      T |-> <<"(", "I", "n", "t", ",", " ", "S", "t", "r", "i", "n", "g", ")">>, E |-> <<>>],
     \* Set[Map[String, Int]]
     [text |-> <<"S", "e", "t", "[", "M", "a", "p", "[", "S", "t", "r", "i", "n", "g", ",", " ", "I", "n", "t", "]", "]">>, kind |-> "Set",
      T |-> <<"M", "a", "p", "[", "S", "t", "r", "i", "n", "g", ",", " ", "I", "n", "t", "]">>, E |-> <<>>],
     \* Set[Result[Int, String]]
     [text |-> <<"S", "e", "t", "[", "R", "e", "s", "u", "l", "t", "[", "I", "n", "t", ",", " ", "S", "t", "r", "i", "n", "g", "]", "]">>, kind |-> "Set",
      T |-> <<"R", "e", "s", "u", "l", "t", "[", "I", "n", "t", ",", " ", "S", "t", "r", "i", "n", "g", "]">>, E |-> <<>>],
     \* List
     [text |-> <<"L", "i", "s", "t">>, kind |-> "bare",
      T |-> <<>>, E |-> <<>>],
     \* Listing
     [text |-> <<"L", "i", "s", "t", "i", "n", "g">>, kind |-> "nominal",
      T |-> <<>>, E |-> <<>>],
     \* Optional
     [text |-> <<"O", "p", "t", "i", "o", "n", "a", "l">>, kind |-> "nominal",
      T |-> <<>>, E |-> <<>>],
     \* Results
     [text |-> <<"R", "e", "s", "u", "l", "t", "s">>, kind |-> "nominal",
      T |-> <<>>, E |-> <<>>],
     \* Mapping
     [text |-> <<"M", "a", "p", "p", "i", "n", "g">>, kind |-> "nominal",
      T |-> <<>>, E |-> <<>>],
     \* Settings
     [text |-> <<"S", "e", "t", "t", "i", "n", "g", "s">>, kind |-> "nominal",
      T |-> <<>>, E |-> <<>>],
     \* Person
     [text |-> <<"P", "e", "r", "s", "o", "n">>, kind |-> "other",
      T |-> <<>>, E |-> <<>>],
     \* Int
     [text |-> <<"I", "n", "t">>, kind |-> "other",
      T |-> <<>>, E |-> <<>>],
     \* String
     [text |-> <<"S", "t", "r", "i", "n", "g">>, kind |-> "other",
      T |-> <<>>, E |-> <<>>]
    }

\* Method names: those of the table, and names the table does not hold
LambdaMethodPool ==
    LambdaListMethods \cup LambdaOptionMethods \cup LambdaMapMethods
    \cup LambdaSetMethods \cup
    {<<"f", "l", "a", "t", "M", "a", "p">>,
     <<"m", "a", "p", "E", "r", "r">>,
     <<"h", "e", "a", "d">>,
     <<"l", "e", "n", "g", "t", "h">>,
     <<"g", "e", "t">>,
     <<"f", "r", "o", "b">>,
     <<"M", "a", "p">>,
     <<"m", "a", "p", "s">>}

\* A call of infer_lambda_param_type_for_method on a receiver type and a
\* method name
CallLambdaParam ==
    \E receiver \in LambdaReceivers, method_name \in LambdaMethodPool :
       Returns("infer_lambda_param_type_for_method",
               [receiver |-> receiver, method_name |-> method_name],
               infer_lambda_param_type_for_method(receiver.text, method_name))

\* ------------------------------------------------------------------------
\* Calls of infer_field_access_type on a tuple
\* ------------------------------------------------------------------------

\* Tuple labels, each with its elements
TupleLabels ==
    {
     \* (Int, String)
     [text |-> <<"(", "I", "n", "t", ",", " ", "S", "t", "r", "i", "n", "g", ")">>,
      elems |-> <<<<"I", "n", "t">>,
                 <<"S", "t", "r", "i", "n", "g">>>>],
     \* (Int, (String, Bool))
     [text |-> <<"(", "I", "n", "t", ",", " ", "(", "S", "t", "r", "i", "n", "g", ",", " ", "B", "o", "o", "l", ")", ")">>,
      elems |-> <<<<"I", "n", "t">>,
                 <<"(", "S", "t", "r", "i", "n", "g", ",", " ", "B", "o", "o", "l", ")">>>>],
     \* ((Int, String), List[Int])
     [text |-> <<"(", "(", "I", "n", "t", ",", " ", "S", "t", "r", "i", "n", "g", ")", ",", " ", "L", "i", "s", "t", "[", "I", "n", "t", "]", ")">>,
      elems |-> <<<<"(", "I", "n", "t", ",", " ", "S", "t", "r", "i", "n", "g", ")">>,
                 <<"L", "i", "s", "t", "[", "I", "n", "t", "]">>>>],
     \* (Map[String, Int], Int, Bool)
     [text |-> <<"(", "M", "a", "p", "[", "S", "t", "r", "i", "n", "g", ",", " ", "I", "n", "t", "]", ",", " ", "I", "n", "t", ",", " ", "B", "o", "o", "l", ")">>,
      elems |-> <<<<"M", "a", "p", "[", "S", "t", "r", "i", "n", "g", ",", " ", "I", "n", "t", "]">>,
                 <<"I", "n", "t">>,
                 <<"B", "o", "o", "l">>>>],
     \* (Result[Int, String], (Int, (Bool, Float)), String)
     [text |-> <<"(", "R", "e", "s", "u", "l", "t", "[", "I", "n", "t", ",", " ", "S", "t", "r", "i", "n", "g", "]", ",", " ", "(", "I", "n", "t", ",", " ", "(", "B", "o", "o", "l", ",", " ", "F", "l", "o", "a", "t", ")", ")", ",", " ", "S", "t", "r", "i", "n", "g", ")">>,
      elems |-> <<<<"R", "e", "s", "u", "l", "t", "[", "I", "n", "t", ",", " ", "S", "t", "r", "i", "n", "g", "]">>,
                 <<"(", "I", "n", "t", ",", " ", "(", "B", "o", "o", "l", ",", " ", "F", "l", "o", "a", "t", ")", ")">>,
                 <<"S", "t", "r", "i", "n", "g">>>>],
     \* (Person)
     [text |-> <<"(", "P", "e", "r", "s", "o", "n", ")">>,
      elems |-> <<<<"P", "e", "r", "s", "o", "n">>>>],
     \* ()
     [text |-> <<"(", ")">>,
      elems |-> <<>>]
    }

\* Index names, each with the number it parses to
TupleIndexNames ==
    {[text |-> <<"0">>, index |-> 0], [text |-> <<"1">>, index |-> 1],
     [text |-> <<"2">>, index |-> 2], [text |-> <<"3">>, index |-> 3],
     [text |-> <<"0", "1">>, index |-> 1], [text |-> <<"1", "0">>, index |-> 10]}

\* What stands before the base variable in the prefix
TupleLeads == {<<>>, <<"f", "(", "x", ",", " ">>, <<"y", " ", "=", " ">>}

\* The documents of a tuple access: an empty one, and one that declares a
\* record type
TupleDocs == {<<>>, <<<<"t", "y", "p", "e", " ", "P", "e", "r", "s", "o", "n", " ", "=", " ", "{", " ", "n", "a", "m", "e", ":", " ", "S", "t", "r", "i", "n", "g", ",", " ", "a", "g", "e", ":", " ", "I", "n", "t", " ", "}">>>>}

\* A call of infer_field_access_type on `t.N` with t bound to a tuple label
CallTupleField ==
    \E tuple \in TupleLabels, name \in TupleIndexNames, lead \in TupleLeads,
       eng \in {EmptyEngine, LiveEngine}, doc \in TupleDocs :
       Returns("infer_field_access_type",
               [tuple |-> tuple, name |-> name,
                prefix |-> lead \o <<"t", ".">> \o name.text,
                engine |-> eng, doc |-> doc],
               infer_field_access_type(
                   lead \o <<"t", ".">> \o name.text, name.text,
                   insert(<<>>, <<"t">>, tuple.text), eng, doc))

\* ------------------------------------------------------------------------
\* Calls of infer_dot_receiver_type on a method chain on a literal
\* ------------------------------------------------------------------------

\* Complete method chains whose base is a string or a list literal
LiteralChains ==
    {
     \* "abc".length()
     <<"\"", "a", "b", "c", "\"", ".", "l", "e", "n", "g", "t", "h", "(", ")">>,
     \* "abc".chars()
     <<"\"", "a", "b", "c", "\"", ".", "c", "h", "a", "r", "s", "(", ")">>,
     \* "abc".trim()
     <<"\"", "a", "b", "c", "\"", ".", "t", "r", "i", "m", "(", ")">>,
     \* "a b".split(" ")
     <<"\"", "a", " ", "b", "\"", ".", "s", "p", "l", "i", "t", "(", "\"", " ", "\"", ")">>,
     \* [1,2,3].filter(f)
     <<"[", "1", ",", "2", ",", "3", "]", ".", "f", "i", "l", "t", "e", "r", "(", "f", ")">>,
     \* [1,2,3].head()
     <<"[", "1", ",", "2", ",", "3", "]", ".", "h", "e", "a", "d", "(", ")">>,
     \* [1,2,3].length()
     <<"[", "1", ",", "2", ",", "3", "]", ".", "l", "e", "n", "g", "t", "h", "(", ")">>,
     \* ["a"].map(f)
     <<"[", "\"", "a", "\"", "]", ".", "m", "a", "p", "(", "f", ")">>,
     \* [1,2,3].filter(f).head()
     <<"[", "1", ",", "2", ",", "3", "]", ".", "f", "i", "l", "t", "e", "r", "(", "f", ")", ".", "h", "e", "a", "d", "(", ")">>,
     \* "abc".trim().length()
     <<"\"", "a", "b", "c", "\"", ".", "t", "r", "i", "m", "(", ")", ".", "l", "e", "n", "g", "t", "h", "(", ")">>
    }

\* A call of infer_dot_receiver_type whose prefix is a method chain on a
\* literal, on an empty document
CallEntryOnChain ==
    \E chain \in LiteralChains, eng \in EntryEngines :
       Returns("dot_receiver_on_literal_chain",
               [prefix |-> chain, engine |-> eng],
               infer_dot_receiver_type(<<>>, 0, chain, eng))

\* ------------------------------------------------------------------------
\* Lambda parameter resolution (single shot)
\* ------------------------------------------------------------------------

\* full_prefix.rfind of `p =>`, then of `p=>`, `p =` and `p=`: the position
\* of the first pattern that is found, -1 when none is
lambda_arrow_pos(full_prefix, param_name) ==
    LET p1 == rfind_str(full_prefix, param_name \o <<" ", "=", ">">>)
        p2 == rfind_str(full_prefix, param_name \o <<"=", ">">>)
        p3 == rfind_str(full_prefix, param_name \o <<" ", "=">>)
        p4 == rfind_str(full_prefix, param_name \o <<"=">>)
    IN  IF p1 # -1 THEN p1
        ELSE IF p2 # -1 THEN p2
        ELSE IF p3 # -1 THEN p3
        ELSE p4

RECURSIVE call_start_scan(_, _, _)
\* The loop over before_lambda.chars().rev().enumerate(): the index i, in
\* the reversed text, of the `(` met at depth 0; -1 when there is none
call_start_scan(chars, i, paren_depth) ==
    IF i >= Len(chars) THEN -1
    ELSE LET c == At(chars, Len(chars) - 1 - i)
         IN  IF c \in {")", "]", "}"}
             THEN call_start_scan(chars, i + 1, paren_depth + 1)
             ELSE IF c = "("
             THEN IF paren_depth = 0 THEN i
                  ELSE call_start_scan(chars, i + 1, paren_depth - 1)
             ELSE IF c \in {"[", "{"}
             THEN call_start_scan(chars, i + 1,
                      IF paren_depth - 1 > 0 THEN paren_depth - 1 ELSE 0)
             ELSE call_start_scan(chars, i + 1, paren_depth)

\* The body holds no call of itself: the depth it is entered with is the
\* depth of the whole resolution.
infer_lambda_param_type_recursive(full_prefix, receiver, local_vars, depth) ==
    \* receiver is the parameter before_dot of the source
    LET param_name == last_nonempty_ident(receiver)
        arrow_pos == lambda_arrow_pos(full_prefix, param_name.v)
        before_lambda == SliceTo(full_prefix, arrow_pos)
        rev == call_start_scan(before_lambda, 0, 0)
        \* before_lambda.len() - i - 1: a length in bytes less a count of
        \* characters
        paren_pos == byte_len(before_lambda) - rev - 1
        before_paren ==
            trim(SliceTo(before_lambda, char_pos(before_lambda, paren_pos)))
        dot_pos == rfind(before_paren, ".")
        method_name == trim(SliceFrom(before_paren, dot_pos + 1))
        receiver_expr == trim(SliceTo(before_paren, dot_pos))
        receiver_type == infer_method_chain_type(receiver_expr, local_vars)
    IN  IF depth > 5 THEN None
        ELSE IF param_name = None THEN None
        ELSE IF arrow_pos = -1 THEN None
        ELSE IF rev = -1 THEN None
        ELSE IF ~is_char_boundary(before_lambda, paren_pos) THEN Panic
        ELSE IF dot_pos = -1 THEN None
        ELSE IF receiver_type \in {None, Panic} THEN receiver_type
        ELSE infer_lambda_param_type_for_method(receiver_type.v, method_name)

\* Prefixes with the text before the dot: one lambda, a lambda inside a
\* lambda, a parameter that is its own receiver, two lambdas with one
\* parameter name, brackets between the call and the lambda, no lambda
ResolutionPrefixes ==
    {
     \* xs.map(p => p
     [full_prefix |-> <<"x", "s", ".", "m", "a", "p", "(", "p", " ", "=", ">", " ", "p">>,
      before_dot |-> <<"p">>],
     \* xs.map(p => p.filter(q => q
     [full_prefix |-> <<"x", "s", ".", "m", "a", "p", "(", "p", " ", "=", ">", " ", "p", ".", "f", "i", "l", "t", "e", "r", "(", "q", " ", "=", ">", " ", "q">>,
      before_dot |-> <<"q">>],
     \* p.map(p => p
     [full_prefix |-> <<"p", ".", "m", "a", "p", "(", "p", " ", "=", ">", " ", "p">>,
      before_dot |-> <<"p">>],
     \* xs.map(p => xs.map(p => xs.map(p => xs.map(p => xs.map(p => xs.map(p => xs.map(p => p
     [full_prefix |-> <<"x", "s", ".", "m", "a", "p", "(", "p", " ", "=", ">", " ", "x", "s", ".", "m", "a", "p", "(", "p", " ", "=", ">", " ", "x", "s", ".", "m", "a", "p", "(", "p", " ", "=", ">", " ", "x", "s", ".", "m", "a", "p", "(", "p", " ", "=", ">", " ", "x", "s", ".", "m", "a", "p", "(", "p", " ", "=", ">", " ", "x", "s", ".", "m", "a", "p", "(", "p", " ", "=", ">", " ", "x", "s", ".", "m", "a", "p", "(", "p", " ", "=", ">", " ", "p">>,
      before_dot |-> <<"p">>],
     \* xs.map(p => p.map(p => p.map(p => p.map(p => p.map(p => p.map(p => p.map(p => p
     [full_prefix |-> <<"x", "s", ".", "m", "a", "p", "(", "p", " ", "=", ">", " ", "p", ".", "m", "a", "p", "(", "p", " ", "=", ">", " ", "p", ".", "m", "a", "p", "(", "p", " ", "=", ">", " ", "p", ".", "m", "a", "p", "(", "p", " ", "=", ">", " ", "p", ".", "m", "a", "p", "(", "p", " ", "=", ">", " ", "p", ".", "m", "a", "p", "(", "p", " ", "=", ">", " ", "p", ".", "m", "a", "p", "(", "p", " ", "=", ">", " ", "p">>,
      before_dot |-> <<"p">>],
     \* xs.fold([0], (p => p
     [full_prefix |-> <<"x", "s", ".", "f", "o", "l", "d", "(", "[", "0", "]", ",", " ", "(", "p", " ", "=", ">", " ", "p">>,
      before_dot |-> <<"p">>],
     \* xs.map(p=>p
     [full_prefix |-> <<"x", "s", ".", "m", "a", "p", "(", "p", "=", ">", "p">>,
      before_dot |-> <<"p">>],
     \* p = xs
     [full_prefix |-> <<"p", " ", "=", " ", "x", "s">>,
      before_dot |-> <<"p">>],
     \* (p => p
     [full_prefix |-> <<"(", "p", " ", "=", ">", " ", "p">>,
      before_dot |-> <<"p">>],
     \* xs.map(q => 
     [full_prefix |-> <<"x", "s", ".", "m", "a", "p", "(", "q", " ", "=", ">", " ">>,
      before_dot |-> <<>>],
     \* zs
     [full_prefix |-> <<"z", "s">>,
      before_dot |-> <<"z", "s">>]
    }

\* The environments of a resolution
ResolutionEnvs ==
    {
     \* nothing bound
     <<>>,
     \* xs: List[List[Int]]
     insert(<<>>, <<"x", "s">>, <<"L", "i", "s", "t", "[", "L", "i", "s", "t", "[", "I", "n", "t", "]", "]">>),
     \* xs: List[Int], p: List[String]
     insert(insert(<<>>, <<"x", "s">>, <<"L", "i", "s", "t", "[", "I", "n", "t", "]">>), <<"p">>, <<"L", "i", "s", "t", "[", "S", "t", "r", "i", "n", "g", "]">>)
    }

\* infer_lambda_param_type is entered: the resolution starts at depth 0
BeginLambdaParam ==
    /\ pc = "idle"
    /\ \E prefix \in ResolutionPrefixes, local_vars \in ResolutionEnvs :
          call' = [fn |-> "infer_lambda_param_type",
                   input |-> [full_prefix |-> prefix.full_prefix,
                              before_dot |-> prefix.before_dot,
                              local_vars |-> local_vars]]
    /\ ret' = [t |-> "Loop", depth |-> 0]
    /\ pc' = "loop"
    /\ UNCHANGED <<content, up_to_line, engine, before_dot, line_num,
                   bindings, current_impl_type>>

\* infer_lambda_param_type_recursive runs at the depth it was entered with
\* and returns
StepLambdaParam ==
    /\ pc = "loop"
    /\ call.fn = "infer_lambda_param_type"
    /\ ret' = infer_lambda_param_type_recursive(
                  call.input.full_prefix, call.input.before_dot,
                  call.input.local_vars, ret.depth)
    /\ pc' = "done"
    /\ UNCHANGED <<content, up_to_line, engine, before_dot, line_num,
                   bindings, current_impl_type, call>>

\* ------------------------------------------------------------------------
\* The scans, one iteration at a time
\* ------------------------------------------------------------------------

\* A scan is entered with its input and the values of its loop variables
Begins(fn, input, state) ==
    /\ pc = "idle"
    /\ call' = [fn |-> fn, input |-> input]
    /\ ret' = state
    /\ pc' = "loop"
    /\ UNCHANGED <<content, up_to_line, engine, before_dot, line_num,
                   bindings, current_impl_type>>

\* One iteration of a scan: it goes on with new values of the loop
\* variables, or it returns
Iterates(after) ==
    /\ ret' = after
    /\ pc' = IF after.t = "Loop" THEN "loop" ELSE "done"
    /\ UNCHANGED <<content, up_to_line, engine, before_dot, line_num,
                   bindings, current_impl_type, call>>

\* A variant of the iteration that stays at a position that starts no arrow
lambda_scan_step_stays(chars, pos, local_vars) ==
    IF pos >= Len(chars) THEN Some(local_vars)
    ELSE IF pos + 1 < Len(chars) /\ At(chars, pos) = "="
            /\ At(chars, pos + 1) = ">"
    THEN LET after == lambda_param_at(chars, pos, local_vars)
         IN  IF after = Panic THEN Panic
             ELSE [t |-> "Loop", pos |-> pos + 2, local_vars |-> after.v]
    ELSE [t |-> "Loop", pos |-> pos, local_vars |-> local_vars]

\* One iteration of the `while pos < chars.len()` loop of
\* extract_lambda_params_to_local_vars
lambda_scan_step(chars, pos, local_vars) ==
    IF pos >= Len(chars) THEN Some(local_vars)
    ELSE IF pos + 1 < Len(chars) /\ At(chars, pos) = "="
            /\ At(chars, pos + 1) = ">"
    THEN LET after == lambda_param_at(chars, pos, local_vars)
         IN  IF after = Panic THEN Panic
             ELSE [t |-> "Loop", pos |-> pos + 2, local_vars |-> after.v]
    ELSE [t |-> "Loop", pos |-> pos + 1, local_vars |-> local_vars]

BeginLambdaScan ==
    \E prefix \in LambdaPrefixes, local_vars \in ResolutionEnvs :
       Begins("lambda_scan",
              [prefix |-> prefix.text, local_vars |-> local_vars],
              [t |-> "Loop", pos |-> 0, local_vars |-> local_vars])

StepLambdaScan ==
    /\ pc = "loop"
    /\ call.fn = "lambda_scan"
    /\ Iterates(lambda_scan_step(call.input.prefix, ret.pos, ret.local_vars))

\* One iteration of the `while !remaining.is_empty() &&
\* remaining.starts_with('.')` loop of infer_method_chain_type
chain_scan_step(remaining, current_type) ==
    IF remaining = <<>> \/ ~starts_with(remaining, <<".">>) THEN current_type
    ELSE LET rest == Tail(remaining)
             paren_pos == find(rest, "(")
             method_name == SliceTo(rest, paren_pos)
             rel == close_paren_scan(SliceFrom(rest, paren_pos), 0, 0)
             close_paren == byte_offset(rest, paren_pos) + rel
         IN  IF paren_pos = -1 THEN None
             ELSE IF rel = -1 THEN None
             ELSE IF ~is_some(current_type) THEN None
             ELSE IF ~is_char_boundary(rest, close_paren + 1) THEN Panic
             ELSE [t |-> "Loop",
                   remaining |-> SliceFrom(rest, char_pos(rest, close_paren + 1)),
                   current_type |->
                       infer_method_return_type_static(current_type.v,
                                                       method_name)]

\* The chains of the loop, each starting at the first `.` after a base:
\* closed calls, a call left open, a member without a call, brackets in the
\* arguments
ChainTails ==
    {
     \* .filter(f).map(g).head()
     <<".", "f", "i", "l", "t", "e", "r", "(", "f", ")", ".", "m", "a", "p", "(", "g", ")", ".", "h", "e", "a", "d", "(", ")">>,
     \* .map(p => p.map(q => q)).length()
     <<".", "m", "a", "p", "(", "p", " ", "=", ">", " ", "p", ".", "m", "a", "p", "(", "q", " ", "=", ">", " ", "q", ")", ")", ".", "l", "e", "n", "g", "t", "h", "(", ")">>,
     \* .map(f
     <<".", "m", "a", "p", "(", "f">>,
     \* .head
     <<".", "h", "e", "a", "d">>,
     \* .filter(f)).map(g)
     <<".", "f", "i", "l", "t", "e", "r", "(", "f", ")", ")", ".", "m", "a", "p", "(", "g", ")">>,
     \* .frob().map(g)
     <<".", "f", "r", "o", "b", "(", ")", ".", "m", "a", "p", "(", "g", ")">>,
     \* .map(f).
     <<".", "m", "a", "p", "(", "f", ")", ".">>,
     \* ..map(f)
     <<".", ".", "m", "a", "p", "(", "f", ")">>,
     \* .map(f) + 1
     <<".", "m", "a", "p", "(", "f", ")", " ", "+", " ", "1">>,
     \* .map(f(g(h(1)))).map(f(g(h(1))))
     <<".", "m", "a", "p", "(", "f", "(", "g", "(", "h", "(", "1", ")", ")", ")", ")", ".", "m", "a", "p", "(", "f", "(", "g", "(", "h", "(", "1", ")", ")", ")", ")">>
    }

BeginChainScan ==
    \E remaining \in ChainTails, elem \in {tInt, tString} :
       Begins("chain_scan",
              [remaining |-> remaining, current_type |-> Some(list_of(elem))],
              [t |-> "Loop", remaining |-> remaining,
               current_type |-> Some(list_of(elem))])

StepChainScan ==
    /\ pc = "loop"
    /\ call.fn = "chain_scan"
    /\ Iterates(chain_scan_step(ret.remaining, ret.current_type))

\* One iteration of the backward `while i > 0` loop of
\* extract_receiver_expression
receiver_scan_step(chars, i, depth, in_string, string_char) ==
    IF i <= 0 THEN Some(chars)
    ELSE LET k == i - 1
             c == At(chars, k)
             on == [t |-> "Loop", i |-> k, depth |-> depth,
                    in_string |-> in_string, string_char |-> string_char]
         IN  IF in_string
             THEN IF c = string_char /\ escapes_before(chars, k) % 2 = 0
                  THEN [on EXCEPT !.in_string = FALSE]
                  ELSE on
             ELSE IF c \in {"\"", "'"}
             THEN [on EXCEPT !.in_string = TRUE, !.string_char = c]
             ELSE IF c \in {")", "]", "}"}
             THEN [on EXCEPT !.depth = depth + 1]
             ELSE IF c \in {"(", "[", "{"}
             THEN IF depth > 0 THEN [on EXCEPT !.depth = depth - 1]
                  ELSE IF ~is_char_boundary(chars, k) THEN Panic
                  ELSE Some(SliceFrom(chars, char_pos(chars, k)))
             ELSE IF depth = 0 /\ ~is_ident_char(c) /\ c # "."
             THEN IF ~is_char_boundary(chars, k + 1) THEN Panic
                  ELSE Some(SliceFrom(chars, char_pos(chars, k + 1)))
             ELSE on

\* Texts of the backward scan: strings with escaped quotes, closed and open
\* brackets, a text of identifier characters only
ScanTexts ==
    {
     \* foo(xs.map(f)
     <<"f", "o", "o", "(", "x", "s", ".", "m", "a", "p", "(", "f", ")">>,
     \* a + "b \\" c".len
     <<"a", " ", "+", " ", "\"", "b", " ", "\\", "\\", "\"", " ", "c", "\"", ".", "l", "e", "n">>,
     \* x = 'it''s'.y
     <<"x", " ", "=", " ", "'", "i", "t", "'", "'", "s", "'", ".", "y">>,
     \* f(g(h(x)))[0].z
     <<"f", "(", "g", "(", "h", "(", "x", ")", ")", ")", "[", "0", "]", ".", "z">>,
     \* abc_def.ghi
     <<"a", "b", "c", "_", "d", "e", "f", ".", "g", "h", "i">>,
     \* ((((
     <<"(", "(", "(", "(">>,
     \* ))))x
     <<")", ")", ")", ")", "x">>,
     \* "unterminated
     <<"\"", "u", "n", "t", "e", "r", "m", "i", "n", "a", "t", "e", "d">>,
     \* a + [1, (2, 3)].map(f).b
     <<"a", " ", "+", " ", "[", "1", ",", " ", "(", "2", ",", " ", "3", ")", "]", ".", "m", "a", "p", "(", "f", ")", ".", "b">>,
     \* 
     <<>>
    }

BeginReceiverScan ==
    \E text \in ScanTexts :
       Begins("receiver_scan", text,
              [t |-> "Loop", i |-> Len(text), depth |-> 0,
               in_string |-> FALSE, string_char |-> "\""])

StepReceiverScan ==
    /\ pc = "loop"
    /\ call.fn = "receiver_scan"
    /\ Iterates(receiver_scan_step(call.input, ret.i, ret.depth,
                                   ret.in_string, ret.string_char))

Next ==
    \/ StartScan
    \/ ScanLine
    \/ ScanDone
    \/ InferDot
    \/ CallListType
    \/ CallIndexedLiteral
    \/ CallTupleType
    \/ CallMethodChain
    \/ CallMalformed
    \/ CallChainOnBase
    \/ CallEntry
    \/ CallReceiver
    \/ CallLiteralType
    \/ CallRhsType
    \/ CallIndexExpr
    \/ CallLambdaPass
    \/ CallLambdaParam
    \/ CallTupleField
    \/ CallEntryOnChain

Spec == Init /\ [][Next]_vars

\* The scans and the resolution of a lambda parameter, one iteration at a
\* time
ScanNext ==
    \/ BeginLambdaParam
    \/ StepLambdaParam
    \/ BeginLambdaScan
    \/ StepLambdaScan
    \/ BeginChainScan
    \/ StepChainScan
    \/ BeginReceiverScan
    \/ StepReceiverScan

ScanSpec == Init /\ [][ScanNext]_vars

\* ------------------------------------------------------------------------
\* Properties
\* ------------------------------------------------------------------------

\* infer_dot_receiver_type returned (a scan or a lambda pass that panicked
\* returns nothing)
EntryReturned ==
    pc = "done" /\ call.fn = "infer_dot_receiver_type" /\ ret # Panic

\* What each strategy produces on the request, in the order (1)..(7), the
\* environment being the local bindings plus the lambda parameters
Strategies ==
    <<try_literal(before_dot),
      try_local_var(before_dot, bindings),
      try_field_access(before_dot, bindings, engine, content),
      try_indexed_literal(before_dot),
      try_index_expr(before_dot, bindings),
      try_rhs(before_dot, bindings, engine),
      try_engine_fallback(before_dot, bindings, engine)>>

Produced == {i \in 1..7 : Strategies[i] # None}

\* C1: infer_dot_receiver_type returns the result of the first strategy, in
\* the order literal, environment lookup, field access, indexed literal,
\* index expression, RHS dispatcher, engine inference, that produces one,
\* and returns nothing only when none of them produces a result.
C1_FirstStrategyWins ==
    EntryReturned =>
        IF Produced = {} THEN ret = None
        ELSE \E i \in Produced :
                /\ \A j \in Produced : i <= j
                /\ ret = Strategies[i]

\* C1 witness: a request on which a later strategy produces a result that
\* differs from the one returned.
C1_Witness ==
    /\ EntryReturned
    /\ \E i \in Produced : Strategies[i] # ret

AsciiLetters == (Upper \cup Lower) \ {EAcute}

RECURSIVE TrailingIdentifier(_)
\* The identifier characters the text ends with
TrailingIdentifier(s) ==
    IF s = <<>> \/ s[Len(s)] \notin AsciiLetters \cup Digits \cup {"_"}
    THEN <<>>
    ELSE Append(TrailingIdentifier(SubSeq(s, 1, Len(s) - 1)), s[Len(s)])

\* The prefix is words, spaces and `+` only, and ends with an identifier
\* that the environment does not bind
EndsWithUnknownIdentifier ==
    /\ \A i \in 1..Len(before_dot) :
          before_dot[i] \in AsciiLetters \cup Digits \cup {"_", " ", "+"}
    /\ TrailingIdentifier(before_dot) # <<>>
    /\ Head(TrailingIdentifier(before_dot)) \in AsciiLetters \cup {"_"}
    /\ TrailingIdentifier(before_dot) \notin DOMAIN bindings

C3_NoPanic == ret # Panic

\* The lines before the cursor line, 1-based
LinesBeforeCursor ==
    {i \in 1..Len(content) : i <= up_to_line}

BindingKinds == {"plain", "annotated", "mvar"}

\* Line i is written as a binding of name
BindsName(i, name) ==
    /\ line_info(content[i]).kind \in BindingKinds
    /\ line_info(content[i]).name = name

\* C4: the environment extract_local_bindings returns holds, apart from
\* `self`, only names bound by lines before the cursor line, each with the
\* type it has when the document ends before the cursor line: the cursor
\* line and the lines after it add or change no binding.
C4_OnlyLinesBeforeCursor ==
    pc = "bound" =>
        /\ \A name \in DOMAIN bindings \ {kSelf} :
              \E i \in LinesBeforeCursor : BindsName(i, name)
        /\ LET cut == SubSeq(content, 1, Cardinality(LinesBeforeCursor))
               before == extract_local_bindings(cut, Len(cut), engine)
           IN  \A name \in (DOMAIN bindings \cup DOMAIN before.v) \ {kSelf} :
                  get(bindings, name) = get(before.v, name)

\* C4 witness: the scan returned with an assignment on the cursor line
\* whose name is not bound.
C4_Witness ==
    /\ pc = "bound"
    /\ up_to_line < Len(content)
    /\ line_info(content[up_to_line + 1]).kind \in BindingKinds
    /\ line_info(content[up_to_line + 1]).name \notin DOMAIN bindings

\* Line i is the last line before the cursor line written as a binding of
\* its name
LastBindingOfItsName(i) ==
    \A j \in LinesBeforeCursor :
       j > i => ~BindsName(j, line_info(content[i]).name)

\* C5: a line `name: Type = expr` or `mvar name: Type = expr` before the
\* cursor line binds name to Type whatever expr is; the environment returned
\* maps name to Type (unless a later line before the cursor binds the name
\* again).
C5_AnnotationDecides ==
    pc = "bound" =>
        \A i \in LinesBeforeCursor :
           (/\ line_info(content[i]).kind \in {"annotated", "mvar"}
            /\ LastBindingOfItsName(i))
           => get(bindings, line_info(content[i]).name)
                 = Some(line_info(content[i]).arg)

\* C5 witness: the environment returned binds x to String from
\* `x: String = someUnknownCall()`.
C5_Witness ==
    /\ pc = "bound"
    /\ \E i \in LinesBeforeCursor : content[i] = <<"x", ":", " ", "S", "t", "r", "i", "n", "g", " ", "=", " ", "s", "o", "m", "e", "U", "n", "k", "n", "o", "w", "n", "C", "a", "l", "l", "(", ")">>
    /\ get(bindings, <<"x">>) = Some(tString)

\* The scan is about to process a line `name = expr` before the cursor line
AtPlainLine ==
    /\ pc = "scan"
    /\ line_num < Len(content)
    /\ line_num < up_to_line
    /\ line_info(content[line_num + 1]).kind = "plain"

\* C6: a line `name = expr` before the cursor line binds name to the type
\* the RHS dispatcher infers for expr under the bindings accumulated so far
\* (`x = 42` binds Int, `y = "hello"` binds String); when the dispatcher
\* infers nothing (`server = Server.bind(8080)` with no engine) the
\* bindings stay as they are.
C6_PlainAssignmentBindsInferred ==
    [][(AtPlainLine /\ pc' = "scan") =>
          LET line == line_info(content[line_num + 1])
              inferred == infer_rhs_type(line.arg, engine, bindings)
          IN  /\ bindings' = IF inferred = None THEN bindings
                             ELSE insert(bindings, line.name, inferred.v)
              /\ line.arg = <<"4", "2">> => get(bindings', line.name) = Some(tInt)
              /\ line.arg = <<"\"", "h", "e", "l", "l", "o", "\"">>
                    => get(bindings', line.name) = Some(tString)
              /\ (line.arg = <<"S", "e", "r", "v", "e", "r", ".", "b", "i", "n", "d", "(", "8", "0", "8", "0", ")">> /\ ~engine.present)
                    => bindings' = bindings]_vars

\* C6 witness: after `xs = [1, 2]`, the line `x = xs.head()` bound x to Int.
C6_Witness ==
    /\ pc = "bound"
    /\ content = <<<<"x", "s", " ", "=", " ", "[", "1", ",", " ", "2", "]">>,
                   <<"x", " ", "=", " ", "x", "s", ".", "h", "e", "a", "d", "(", ")">>>>
    /\ up_to_line = 2
    /\ get(bindings, <<"x">>) = Some(tInt)

ListTypeReturned == pc = "done" /\ call.fn = "infer_list_type"

\* C7 as stated: infer_list_type returns List[T], T the first element's own
\* type, for integer, float, string, nested list and nominal first elements
\* and also for boolean and tuple literals; bare List for `[]`.
C7_AsStated == ListTypeReturned => ret = call.input.own

\* C7: infer_list_type returns List[T] where T is the type of the first
\* element when that is an integer, a float, a string, a nested list
\* literal (recursively) or a capitalised name; any other first element,
\* boolean and tuple literals among them, gives the bare List, as does `[]`.
C7_FirstElementDecides == ListTypeReturned => ret = call.input.ruled

\* C7 witness: a list of lists whose innermost first element is a boolean
\* or a tuple literal.
C7_Witness ==
    /\ ListTypeReturned
    /\ call.input.own # call.input.ruled
    /\ ret = Some(list_of(tList))

IndexedReturned == pc = "done" /\ call.fn = "infer_indexed_list_literal_type"

\* The label inside `List[...]`, or Stuck for any other label
Unwrapped(label) ==
    IF Len(label) > 5 /\ SubSeq(label, 1, 5) = pListOpen
       /\ label[Len(label)] = "]"
    THEN SubSeq(label, 6, Len(label) - 1)
    ELSE <<"S", "t", "u", "c", "k">>

RECURSIVE PeelAsStated(_, _)
\* k peels, stopping with the current label where no peel is possible
PeelAsStated(label, k) ==
    IF k = 0 \/ Unwrapped(label) = <<"S", "t", "u", "c", "k">> THEN Some(label)
    ELSE PeelAsStated(Unwrapped(label), k - 1)

RECURSIVE PeelOrNothing(_, _)
\* k peels, stopping with the current label at a label that is no list and
\* with nothing at the bare List
PeelOrNothing(label, k) ==
    IF k = 0 THEN Some(label)
    ELSE IF label = tList THEN None
    ELSE IF Unwrapped(label) = <<"S", "t", "u", "c", "k">> THEN Some(label)
    ELSE PeelOrNothing(Unwrapped(label), k - 1)

\* C8 as stated: one layer is peeled per index suffix, and where no peel is
\* possible (a label that is no list, or the bare List) the current label is
\* returned.
C8_AsStated ==
    IndexedReturned => ret = PeelAsStated(call.input.base, call.input.suffixes)

\* C8: one layer is peeled per `[` that follows the literal; at a label that
\* is no list the current label is returned, at the bare List with a peel
\* still to do nothing is returned.
C8_PeelPerBracket ==
    IndexedReturned => ret = PeelOrNothing(call.input.base, call.input.opens)

\* C8 witness: the bare List was reached with a peel still to do, and
\* nothing was returned.
C8_Witness ==
    /\ IndexedReturned
    /\ PeelAsStated(call.input.base, call.input.suffixes) = Some(tList)
    /\ ret = None

TupleReturned == pc = "done" /\ call.fn = "infer_tuple_type"

\* C9: infer_tuple_type on `(e1, ..., en)` returns `(T1, ..., Tn)`, Ti the
\* classification of ei alone; commas inside the brackets of an element do
\* not split it.
C9_TupleOfClassifications == TupleReturned => ret = Some(call.input.type)

\* C9 witness: `(true, 1, 3.14)` gave `(Bool, Int, Float)`.
C9_Witness ==
    /\ TupleReturned
    /\ call.input.n = 3
    /\ ret = Some(<<"(", "B", "o", "o", "l", ",", " ", "I", "n", "t", ",", " ", "F", "l", "o", "a", "t", ")">>)

ChainReturned == pc = "done" /\ call.fn = "infer_method_chain_type"

\* C10: with xs bound to List[T], a chain of shape-preserving calls on xs
\* has type List[T], whatever the arguments of the calls.
C10_ShapePreserved ==
    (ChainReturned /\ call.input.keeps)
    => ret = Some(list_of(call.input.elem))

\* C10 witness: a chain of two shape-preserving calls on a list of tuples
\* kept its type.
C10_Witness ==
    /\ ChainReturned
    /\ call.input.keeps
    /\ call.input.calls = 2
    /\ call.input.elem = <<"(", "I", "n", "t", ",", " ", "S", "t", "r", "i", "n", "g", ")">>
    /\ ret = Some(list_of(<<"(", "I", "n", "t", ",", " ", "S", "t", "r", "i", "n", "g", ")">>))

\* ------------------------------------------------------------------------
\* Properties of member access, lambda parameters and field access
\* ------------------------------------------------------------------------

\* infer_method_chain_type returned on a base followed by one member
MemberReturned == pc = "done" /\ call.fn = "chain_on_base"

\* infer_dot_receiver_type returned on a whole document
DocumentReturned == pc = "done" /\ call.fn = "dot_receiver_on_document"

\* The environment that the scan of the call's document gives at its cursor
VisibleOf(scan) == IF is_some(scan) THEN scan.v ELSE <<>>

VisibleBindings ==
    VisibleOf(extract_local_bindings(call.input.doc, call.input.cursor,
                                     call.input.engine))

\* C11: for xs bound to List[Int], the member access xs.head, written
\* without an argument list, and the call xs.get(0) both infer to Int,
\* through infer_method_chain_type and through infer_dot_receiver_type.
C11_ElementExtraction ==
    /\ ( /\ MemberReturned
         /\ call.input.base.text = <<"x", "s">>
         /\ get(call.input.env, <<"x", "s">>) = Some(list_of(tInt))
         /\ call.input.member.text \in {<<".", "h", "e", "a", "d">>, <<".", "g", "e", "t", "(", "0", ")">>} )
       => ret = Some(tInt)
    /\ ( /\ DocumentReturned
         /\ call.input.prefix \in {<<"x", "s", ".", "h", "e", "a", "d">>, <<"x", "s", ".", "g", "e", "t", "(", "0", ")">>}
         /\ get(VisibleBindings, <<"x", "s">>) = Some(list_of(tInt)) )
       => ret = Some(tInt)

\* Element types of the lists that the documents bind nums to
LambdaElems == {tInt, tString, list_of(tInt), <<"P", "e", "r", "s", "o", "n">>}

\* The call's document binds nums to List[elem] before the cursor line and
\* does not bind p, and the text before the dot is `nums.map(p => p`
LambdaRequest(elem) ==
    /\ DocumentReturned
    /\ call.input.prefix = <<"n", "u", "m", "s", ".", "m", "a", "p", "(", "p", " ", "=", ">", " ", "p">>
    /\ get(VisibleBindings, <<"n", "u", "m", "s">>) = Some(list_of(elem))
    /\ get(VisibleBindings, <<"p">>) = None

\* C12: with nums bound to List[T] before the cursor line and p not bound,
\* infer_dot_receiver_type on the prefix `nums.map(p => p` returns T, and the
\* receiver that the entry point classifies is the parameter p, the `=` of
\* the arrow notwithstanding.
C12_LambdaParamIsElement ==
    \A elem \in LambdaElems :
       LambdaRequest(elem) =>
          /\ ret = Some(elem)
          /\ extract_receiver_expression(expr_to_infer_of(call.input.prefix))
                = Some(<<"p">>)

\* C12 witness: the request on a list whose elements are not Int, answered
\* with the element type
C12_Witness ==
    /\ LambdaRequest(<<"P", "e", "r", "s", "o", "n">>)
    /\ ret = Some(<<"P", "e", "r", "s", "o", "n">>)
    /\ expr_to_infer_of(call.input.prefix) # call.input.prefix

\* The call's document binds self to Person, from a trait-implementation
\* header and a method line before the cursor, the engine reports the field
\* age of Person as Int, and the text before the dot ends with `self.age`
ReceiverFieldRequest ==
    /\ DocumentReturned
    /\ ends_with(call.input.prefix, <<"s", "e", "l", "f", ".", "a", "g", "e">>)
    /\ get(VisibleBindings, <<"s", "e", "l", "f">>) = Some(<<"P", "e", "r", "s", "o", "n">>)
    /\ call.input.engine.present
    /\ get_field_type(call.input.engine, <<"P", "e", "r", "s", "o", "n">>, <<"a", "g", "e">>) = Some(tInt)

\* C13: with self bound to Person by the trait-implementation context and
\* the engine reporting the field age of Person as Int,
\* infer_dot_receiver_type on a prefix ending in `self.age` returns Int.
C13_ReceiverFieldIsInt ==
    ReceiverFieldRequest => ret = Some(tInt)

\* ------------------------------------------------------------------------
\* Properties of extract_receiver_expression
\* ------------------------------------------------------------------------

\* extract_receiver_expression returned
ReceiverReturned == pc = "done" /\ call.fn = "extract_receiver_expression"

\* result is the text from some position of text on
IsSuffix(result, text) ==
    /\ Len(result) <= Len(text)
    /\ result = SubSeq(text, Len(text) - Len(result) + 1, Len(text))

\* C14: extract_receiver_expression returns a suffix of its input: the
\* receiver alone when a character that is neither an identifier character,
\* a dot nor a bracket precedes it at depth zero outside a string, the text
\* from the opener when an unmatched opener precedes it, and the whole text
\* when the scan reaches the start of the text.
C14_ReceiverIsSuffix ==
    ReceiverReturned =>
       /\ is_some(ret)
       /\ IsSuffix(ret.v, call.input.text)
       /\ call.input.sep.kind = "plain" => ret.v = call.input.receiver
       /\ call.input.sep.kind = "opener"
             => ret.v = call.input.sep.text \o call.input.receiver
       /\ call.input.sep.kind = "none" => ret.v = call.input.text

\* C14 witness: `a + [1,2,3]` gives `[1,2,3]`
C14_Witness ==
    /\ ReceiverReturned
    /\ call.input.text = <<"a", " ", "+", " ", "[", "1", ",", "2", ",", "3", "]">>
    /\ ret = Some(<<"[", "1", ",", "2", ",", "3", "]">>)

\* ------------------------------------------------------------------------
\* Properties of detect_literal_type
\* ------------------------------------------------------------------------

\* detect_literal_type returned
LiteralReturned == pc = "done" /\ call.fn = "detect_literal_type"

\* The label that the rules give an expression of a shape, in the order
\* quote, list, map, set, number
LabelOfShape(shape) ==
    CASE shape = "String" -> Some(tString)
      [] shape = "List" -> Some(tList)
      [] shape = "indexed" -> None
      [] shape = "Map" -> Some(tMap)
      [] shape = "Set" -> Some(tSet)
      [] shape = "Int" -> Some(tInt)
      [] shape = "Float" -> Some(tFloat)
      [] shape = "other" -> None

\* C15: detect_literal_type trims the expression and applies its rules in
\* order: a leading quote gives String; a leading `[` gives List, or nothing
\* when `[` follows the matching `]` at once; `%{` gives Map; `#{` gives Set;
\* after one optional minus sign a leading digit gives Float when the text
\* contains a dot and Int otherwise; anything else gives nothing.
C15_LiteralRulesInOrder ==
    LiteralReturned => ret = LabelOfShape(call.input.shape)

\* C15 witness: a negative number with a dot, between blanks, is a Float
C15_Witness ==
    /\ LiteralReturned
    /\ call.input.text = <<" ", "-", "3", ".", "1", "4", " ">>
    /\ ret = Some(tFloat)

\* The call has no engine, the text before the dot is prefix and the
\* document binds base to type before the cursor line
NoEngineRequest(prefix, base, type) ==
    /\ DocumentReturned
    /\ ~call.input.engine.present
    /\ call.input.prefix = prefix
    /\ get(VisibleBindings, base) = Some(type)

\* The answer to the call's request of an engine that knows nothing
IgnorantEngineAnswer ==
    infer_dot_receiver_type(call.input.doc, call.input.cursor,
                            call.input.prefix, EmptyEngine)

\* The call's document declares the record type Person with its fields
DeclaresPerson ==
    \E i \in 1..Len(call.input.doc) :
       call.input.doc[i] = <<"t", "y", "p", "e", " ", "P", "e", "r", "s", "o", "n", " ", "=", " ", "{", " ", "n", "a", "m", "e", ":", " ", "S", "t", "r", "i", "n", "g", ",", " ", "a", "g", "e", ":", " ", "I", "n", "t", " ", "}">>

\* C16: with no engine, infer_dot_receiver_type still resolves `base.field`
\* from a `type Name = { field: Type, ... }` declaration in the document and
\* `base.N` against a tuple-typed base, as it does with an engine that knows
\* nothing about the type.
C16_NoEngineKeepsSyntacticPath ==
    /\ NoEngineRequest(<<"p", ".", "n", "a", "m", "e">>, <<"p">>, <<"P", "e", "r", "s", "o", "n">>) /\ DeclaresPerson
          => ret = Some(tString) /\ ret = IgnorantEngineAnswer
    /\ NoEngineRequest(<<"p", ".", "a", "g", "e">>, <<"p">>, <<"P", "e", "r", "s", "o", "n">>) /\ DeclaresPerson
          => ret = Some(tInt) /\ ret = IgnorantEngineAnswer
    /\ NoEngineRequest(<<"t", ".", "0">>, <<"t">>, <<"(", "I", "n", "t", ",", " ", "S", "t", "r", "i", "n", "g", ")">>)
          => ret = Some(tInt) /\ ret = IgnorantEngineAnswer
    /\ NoEngineRequest(<<"t", ".", "1">>, <<"t">>, <<"(", "I", "n", "t", ",", " ", "S", "t", "r", "i", "n", "g", ")">>)
          => ret = Some(tString) /\ ret = IgnorantEngineAnswer

\* ------------------------------------------------------------------------
\* Properties of infer_rhs_type
\* ------------------------------------------------------------------------

\* infer_rhs_type returned
RhsReturned == pc = "done" /\ call.fn = "infer_rhs_type"

\* What a rule that may fall through yields
yield_of(rule) == IF rule.t = "next" THEN None ELSE rule

\* What each rule yields on the trimmed expression, taken alone: method
\* chain, index expression, list literal, string, map, set, tuple,
\* constructor or type name, Int, Float, function signature
RhsRules(trimmed, eng, env) ==
    <<IF contains(trimmed, ".") /\ contains(trimmed, "(")
      THEN infer_method_chain_type(trimmed, env) ELSE None,
      IF contains(trimmed, "[") /\ ~starts_with(trimmed, <<"[">>)
      THEN infer_index_expr_type(trimmed, env) ELSE None,
      IF starts_with(trimmed, <<"[">>)
      THEN or_else(infer_indexed_list_literal_type(trimmed),
                   infer_list_type(trimmed))
      ELSE None,
      IF starts_with(trimmed, <<"\"">>) THEN Some(tString) ELSE None,
      IF starts_with(trimmed, <<"%", "{">>) THEN Some(tMap) ELSE None,
      IF starts_with(trimmed, <<"#", "{">>) THEN Some(tSet) ELSE None,
      IF /\ starts_with(trimmed, <<"(">>) /\ ends_with(trimmed, <<")">>)
         /\ contains(trimmed, ",")
      THEN infer_tuple_type(trimmed) ELSE None,
      yield_of(constructor_rule(trimmed, eng)),
      IF is_int_text(trimmed) THEN Some(tInt) ELSE None,
      IF is_float_text(trimmed) THEN Some(tFloat) ELSE None,
      function_call_rule(trimmed, eng, env)>>

\* The result of the first rule that yields a type, nothing when none does
FirstYield(rules) ==
    LET yielding == {i \in 1..Len(rules) : is_some(rules[i])}
    IN  IF yielding = {} THEN None ELSE rules[MinOf(yielding)]

\* The rules on the call's expression
RulesOfCall ==
    RhsRules(trim(call.input.text), call.input.engine, call.input.env)

\* C17: infer_rhs_type returns the result of the first rule, in the order
\* method chain, index expression, list literal, string, map, set, tuple,
\* constructor or type name, Int, Float, function signature, that yields a
\* type; a method-chain, index or tuple rule that yields nothing lets the
\* later rules run; the result is absent when no rule yields a type.
C17_FirstYieldingRuleWins ==
    RhsReturned => ret = FirstYield(RulesOfCall)

\* C17 witness: on `xs[0].show()` with xs bound the method-chain rule
\* applies and yields nothing, and the index rule after it decides
C17_Witness ==
    /\ RhsReturned
    /\ call.input.text = <<"x", "s", "[", "0", "]", ".", "s", "h", "o", "w", "(", ")">>
    /\ RulesOfCall[1] = None
    /\ ret = Some(tInt)
    /\ ret = RulesOfCall[2]

\* Capitalised identifiers followed by an argument list in parentheses
CapitalCalls ==
    {<<"C", "i", "r", "c", "l", "e", "(", "1", ")">>,
     <<"P", "o", "i", "n", "t", "(", "1", ",", " ", "2", ")">>,
     <<"F", "o", "o", "(", "x", ":", " ", "1", ")">>,
     <<"F", "o", "o", "(", "1", ")">>,
     <<"F", "o", "o", " ", "(", "1", ")">>}

\* Capitalised identifiers alone
CapitalBare ==
    {<<"C", "i", "r", "c", "l", "e">>, <<"P", "e", "r", "s", "o", "n">>, <<"P", "o", "i", "n", "t">>, <<"F", "o", "o">>}

\* The engine is absent, or resolves name neither as a constructor nor as a
\* declared type name
Unresolved(eng, name) ==
    \/ ~eng.present
    \/ /\ get_type_for_constructor(eng, name) = None
       /\ \A i \in 1..Len(get_types(eng)) : get_types(eng)[i] # name
       /\ type_by_suffix(get_types(eng), name) = None

\* infer_rhs_type returned on a capitalised identifier, call or bare, that
\* the engine does not resolve
UnresolvedCapital ==
    /\ RhsReturned
    /\ call.input.text \in CapitalCalls \cup CapitalBare
    /\ Unresolved(call.input.engine, take_ident(call.input.text))

\* C18 as stated: an unresolved capitalised identifier is returned as a
\* nominal type both when an argument list follows it and when it is bare.
C18_AsStated ==
    UnresolvedCapital => ret = Some(take_ident(call.input.text))

\* C18: an unresolved capitalised identifier is returned as a nominal type
\* when an argument list in parentheses follows it, and a bare reference
\* gives nothing.
C18_NominalOnlyWhenCalled ==
    UnresolvedCapital =>
       IF call.input.text \in CapitalCalls
       THEN ret = Some(take_ident(call.input.text))
       ELSE ret = None

\* C18 witness: the bare `Foo`, with an engine that does not know it, gives
\* nothing, and `Foo(1)` is in the pool of calls
C18_Witness ==
    /\ UnresolvedCapital
    /\ call.input.engine.present
    /\ call.input.text = <<"F", "o", "o">>
    /\ ret = None

\* ------------------------------------------------------------------------
\* Properties of the base of a method chain
\* ------------------------------------------------------------------------

\* C19: a dot inside the string literal at the base of a chain is not the
\* chain's first call boundary: a string literal followed by .length(), such
\* as `"a.b".length()`, has the literal as base and infers Int.
C19_DotInsideStringIsNoBoundary ==
    ( /\ MemberReturned
      /\ call.input.base.kind = "string"
      /\ call.input.member.text = <<".", "l", "e", "n", "g", "t", "h", "(", ")">> )
    => ret = Some(tInt)

\* The base of the call is a literal of the literal rules
LiteralBase ==
    call.input.base.kind \in {"string", "list", "map", "set", "int", "float"}

\* The base of the call is an identifier bound in the environment
BoundBase ==
    /\ call.input.base.kind = "identifier"
    /\ is_some(get(call.input.env, call.input.base.text))

\* C20: the base of a chain is resolved whenever it is a string, list, map,
\* set, integer or float literal or a bound identifier, so that .show() on
\* it infers String, and the chain fails at the base only otherwise.  (The
\* string with a dot inside is left to C19.)
C20_LiteralOrBoundBaseResolves ==
    ( /\ MemberReturned
      /\ call.input.member.text = <<".", "s", "h", "o", "w", "(", ")">>
      /\ call.input.base.text # <<"\"", "a", ".", "b", "\"">> )
    => IF LiteralBase \/ BoundBase THEN ret = Some(tString) ELSE ret = None

\* ------------------------------------------------------------------------
\* Properties of infer_index_expr_type
\* ------------------------------------------------------------------------

\* infer_index_expr_type returned
IndexExprReturned == pc = "done" /\ call.fn = "infer_index_expr_type"

\* C21: infer_index_expr_type on an identifier followed by index suffixes,
\* the identifier bound to n layers of `List[` around T and the expression
\* holding k characters `[`, returns the bound type with k layers removed
\* when k <= n, and nothing when k > n (a bare List or a type that is no
\* list is reached first) or when the identifier is not bound.
C21_CleanFullPeel ==
    IndexExprReturned =>
       ret = IF /\ call.input.ident = <<"x", "s">>
                /\ call.input.opens <= call.input.layers
             THEN Some(nest_list(call.input.elem,
                                 call.input.layers - call.input.opens))
             ELSE None

\* C21 witness: xs[ys[0]] with xs bound to List[List[List[Int]]] holds two
\* `[` and gives List[Int]
C21_Witness ==
    /\ IndexExprReturned
    /\ call.input.text = <<"x", "s", "[", "y", "s", "[", "0", "]", "]">>
    /\ call.input.layers = 3
    /\ call.input.elem = tInt
    /\ ret = Some(list_of(tInt))

\* ------------------------------------------------------------------------
\* Properties of the trait-implementation context
\* ------------------------------------------------------------------------

\* The scan of extract_local_bindings is under way or has returned
Scanning == pc \in {"scan", "bound"}

\* The header and `end` lines among the first n lines of the document
SlotLines(n) ==
    {i \in 1..n : line_info(content[i]).kind \in {"header", "end"}}

\* The left-hand type of the most recent header among the first n lines
\* that no `end` line follows, nothing when there is none
OpenHeaderType(n) ==
    IF SlotLines(n) = {} THEN None
    ELSE IF line_info(content[MaxOf(SlotLines(n))]).kind = "end" THEN None
    ELSE Some(line_info(content[MaxOf(SlotLines(n))]).arg)

\* After each line the context is the type of the latest open header
ContextIsOpenHeader ==
    Scanning => current_impl_type = OpenHeaderType(line_num)

\* The scan processes a line and goes on
ScanStep == pc = "scan" /\ pc' = "scan" /\ line_num' = line_num + 1

\* The line processed has a parameter list whose first parameter is self
SelfFirstLine == line_info(content[line_num + 1]).kind = "method"

\* A line binds self to the context type exactly when it has self as its
\* first parameter and the context is not empty
SelfFromContext ==
    ScanStep =>
       IF SelfFirstLine /\ current_impl_type # None
       THEN get(bindings', kSelf) = OpenHeaderType(line_num)
       ELSE get(bindings', kSelf) = get(bindings, kSelf)

\* C22: while extract_local_bindings scans the lines, the context is a
\* single slot that after each line holds the left-hand type of the most
\* recent trait-implementation header not followed by an `end` line, and is
\* empty otherwise; a line whose first parameter is self binds self to the
\* context type, the type of the latest header, exactly when the context is
\* not empty at that line.
C22_ContextIsLatestOpenHeader ==
    []ContextIsOpenHeader /\ [][SelfFromContext]_vars

\* C22 witness: after two headers, a method line of each and `end`, the
\* context is empty and self was last bound to the type of the second
C22_Witness ==
    /\ pc = "bound"
    /\ Len(content) = 5
    /\ line_num = 5
    /\ content[3] = <<"B", "o", "x", "[", "T", "]", ":", " ", "E", "q">>
    /\ current_impl_type = None
    /\ get(bindings, kSelf) = Some(<<"B", "o", "x", "[", "T", "]">>)

\* ------------------------------------------------------------------------
\* Properties of rebinding
\* ------------------------------------------------------------------------

\* The lines before the cursor line that are written as bindings of name
BindingLinesOf(name) == {i \in LinesBeforeCursor : BindsName(i, name)}

\* The environment of the scan before line i
BindingsBefore(i) ==
    VisibleOf(extract_local_bindings(SubSeq(content, 1, i - 1), i - 1, engine))

\* The type line i gives its name: the annotation, or what the dispatcher
\* infers for the right-hand side, nothing when it infers nothing
TypeGivenBy(i) ==
    IF line_info(content[i]).kind = "plain"
    THEN infer_rhs_type(line_info(content[i]).arg, engine, BindingsBefore(i))
    ELSE Some(line_info(content[i]).arg)

\* The names that several lines before the cursor line bind
ReboundNames ==
    {line_info(content[i]).name : i \in
        {j \in LinesBeforeCursor :
            /\ line_info(content[j]).kind \in BindingKinds
            /\ Cardinality(BindingLinesOf(line_info(content[j]).name)) > 1}}

\* The lines among those binding name that give a type
TypedLinesOf(name) == {i \in BindingLinesOf(name) : is_some(TypeGivenBy(i))}

\* C23 as stated: a name bound by several lines before the cursor line has
\* the type given by the last of them, also when the right-hand side of the
\* last cannot be inferred.
C23_AsStated ==
    pc = "bound" =>
       \A name \in ReboundNames :
          get(bindings, name) = TypeGivenBy(MaxOf(BindingLinesOf(name)))

\* C23: a name bound by several lines before the cursor line has the type
\* given by the last of them that gives one, whatever the shape of the
\* earlier types; a rebinding whose right-hand side cannot be inferred
\* leaves the earlier type, and the name is unbound when no line gives one.
C23_LastTypedWriteWins ==
    pc = "bound" =>
       \A name \in ReboundNames :
          get(bindings, name) =
             IF TypedLinesOf(name) = {} THEN None
             ELSE TypeGivenBy(MaxOf(TypedLinesOf(name)))

\* C23 witness: t bound to a list, then to a tuple, then to a call that
\* cannot be inferred, is a tuple
C23_Witness ==
    /\ pc = "bound"
    /\ Cardinality(BindingLinesOf(<<"t">>)) = 3
    /\ TypeGivenBy(3) = None
    /\ get(bindings, <<"t">>) = Some(<<"(", "I", "n", "t", ",", " ", "S", "t", "r", "i", "n", "g", ")">>)

\* ------------------------------------------------------------------------
\* Properties of the lambda parameter pass
\* ------------------------------------------------------------------------

\* A call of extract_lambda_params_to_local_vars has returned an environment
LambdaPassReturned ==
    /\ pc = "done"
    /\ call.fn = "extract_lambda_params_to_local_vars"
    /\ is_some(ret)

\* A lambda of the prefix whose receiver and parameter type both resolve
\* in the environment after the pass, to param_type
ResolvedLambda(lambda, after, param_type) ==
    /\ is_some(infer_method_chain_type(lambda.receiver, after))
    /\ infer_lambda_param_type_for_method(
           infer_method_chain_type(lambda.receiver, after).v,
           lambda.method) = Some(param_type)

\* C24: the lambda parameter pass only adds bindings. Every name bound
\* before the pass has the same type after it, also when a lambda of the
\* prefix has that name as its parameter, and a name is added only as the
\* parameter of a lambda whose receiver type and parameter type resolve.
C24_OnlyAdds ==
    LambdaPassReturned =>
       /\ \A name \in DOMAIN call.input.local_vars :
             get(ret.v, name) = Some(call.input.local_vars[name])
       /\ \A name \in DOMAIN ret.v \ DOMAIN call.input.local_vars :
             \E lambda \in call.input.lambdas :
                /\ lambda.param = name
                /\ ResolvedLambda(lambda, ret.v, ret.v[name])

\* C24 witness: x, bound to String before the pass and the parameter of the
\* first lambda, is still String, and the parameter p of the second lambda
\* was added
C24_Witness ==
    /\ LambdaPassReturned
    /\ call.input.prefix = <<"x", "s", ".", "m", "a", "p", "(", "x", " ", "=", ">", " ", "y", "s", ".", "f", "i", "l", "t", "e", "r", "(", "p", " ", "=", ">", " ", "p">>
    /\ get(call.input.local_vars, <<"x">>) = Some(tString)
    /\ get(ret.v, <<"x">>) = Some(tString)
    /\ <<"p">> \notin DOMAIN call.input.local_vars
    /\ get(ret.v, <<"p">>) = Some(tString)

\* ------------------------------------------------------------------------
\* Properties of the lambda parameter table
\* ------------------------------------------------------------------------

\* A call of infer_lambda_param_type_for_method has returned
LambdaParamReturned ==
    pc = "done" /\ call.fn = "infer_lambda_param_type_for_method"

\* The methods whose lambda takes an element of a list
ListLambdaNames ==
    {<<"m", "a", "p">>,
     <<"f", "i", "l", "t", "e", "r">>,
     <<"e", "a", "c", "h">>,
     <<"a", "n", "y">>,
     <<"a", "l", "l">>,
     <<"f", "i", "n", "d">>,
     <<"t", "a", "k", "e", "W", "h", "i", "l", "e">>,
     <<"d", "r", "o", "p", "W", "h", "i", "l", "e">>,
     <<"p", "a", "r", "t", "i", "t", "i", "o", "n">>,
     <<"s", "p", "a", "n">>,
     <<"s", "o", "r", "t", "B", "y">>,
     <<"g", "r", "o", "u", "p", "B", "y">>,
     <<"c", "o", "u", "n", "t">>,
     <<"f", "o", "l", "d">>,
     <<"f", "o", "l", "d", "l">>,
     <<"f", "o", "l", "d", "r">>,
     <<"z", "i", "p", "W", "i", "t", "h">>}

\* What the table holds for a receiver and a method name, nothing for a
\* method name it does not hold
ParamTypeOf(receiver, method_name) ==
    CASE receiver.kind = "List" ->
            IF method_name \in ListLambdaNames THEN Some(receiver.T) ELSE None
      [] receiver.kind = "Option" ->
            IF method_name \in {<<"m", "a", "p">>, <<"f", "l", "a", "t", "M", "a", "p">>, <<"f", "i", "l", "t", "e", "r">>}
            THEN Some(receiver.T) ELSE None
      [] receiver.kind = "Result" ->
            IF method_name = <<"m", "a", "p">> THEN Some(receiver.T)
            ELSE IF method_name = <<"m", "a", "p", "E", "r", "r">> THEN Some(receiver.E)
            ELSE None
      [] receiver.kind = "Map" ->
            IF method_name \in {<<"m", "a", "p">>, <<"f", "i", "l", "t", "e", "r">>, <<"e", "a", "c", "h">>}
            THEN Some(<<"(", "k", ",", " ", "v", ")">>) ELSE None
      [] receiver.kind = "Set" ->
            IF method_name \in {<<"m", "a", "p">>, <<"f", "i", "l", "t", "e", "r">>, <<"e", "a", "c", "h">>, <<"a", "n", "y">>, <<"a", "l", "l">>}
            THEN Some(receiver.T) ELSE None

\* C25: infer_lambda_param_type_for_method gives T on List[T] for the
\* seventeen list methods, T on Option[T] for map, flatMap and filter, T on
\* Result[T, E] for map and E for mapErr, split at the top-level comma,
\* `(k, v)` on Map for map, filter and each, T on Set[T] for map, filter,
\* each, any and all, and nothing for any other method name.
C25_ParamTypePerContainer ==
    (LambdaParamReturned
        /\ call.input.receiver.kind \in {"List", "Option", "Result", "Map", "Set"})
    => ret = ParamTypeOf(call.input.receiver, call.input.method_name)

\* C25 witness: mapErr on a Result whose ok type holds a comma inside
\* parentheses gives the error type
C25_Witness ==
    /\ LambdaParamReturned
    /\ call.input.receiver.text = <<"R", "e", "s", "u", "l", "t", "[", "(", "I", "n", "t", ",", " ", "S", "t", "r", "i", "n", "g", ")", ",", " ", "L", "i", "s", "t", "[", "I", "n", "t", "]", "]">>
    /\ call.input.method_name = <<"m", "a", "p", "E", "r", "r">>
    /\ ret = Some(<<"L", "i", "s", "t", "[", "I", "n", "t", "]">>)

\* C30: infer_lambda_param_type_for_method never invents an element type.
\* What it returns for a List receiver is the element type written in the
\* receiver label, and it returns nothing for the bare List and for a
\* nominal type whose name only begins with List, Option, Result, Map or
\* Set.
C30_NeverInvents ==
    LambdaParamReturned =>
       /\ call.input.receiver.kind = "List" /\ is_some(ret)
             => ret.v = call.input.receiver.T
       /\ call.input.receiver.kind \in {"bare", "nominal"} => ret = None

\* ------------------------------------------------------------------------
\* Properties of tuple element access
\* ------------------------------------------------------------------------

\* A call of infer_field_access_type on a tuple has returned
TupleFieldReturned ==
    pc = "done" /\ call.fn = "infer_field_access_type"

\* C26: infer_field_access_type on `base.N` with base bound to a tuple label
\* of n elements returns element N when N < n, the label split only at the
\* commas outside brackets, and nothing when N >= n.
C26_TupleElementByIndex ==
    TupleFieldReturned =>
       ret = IF call.input.name.index < Len(call.input.tuple.elems)
             THEN Some(call.input.tuple.elems[call.input.name.index + 1])
             ELSE None

\* C26 witness: element 1 of a tuple whose elements hold commas is the
\* whole nested tuple
C26_Witness ==
    /\ TupleFieldReturned
    /\ call.input.tuple.text = <<"(", "R", "e", "s", "u", "l", "t", "[", "I", "n", "t", ",", " ", "S", "t", "r", "i", "n", "g", "]", ",", " ", "(", "I", "n", "t", ",", " ", "(", "B", "o", "o", "l", ",", " ", "F", "l", "o", "a", "t", ")", ")", ",", " ", "S", "t", "r", "i", "n", "g", ")">>
    /\ call.input.name.text = <<"1">>
    /\ ret = Some(<<"(", "I", "n", "t", ",", " ", "(", "B", "o", "o", "l", ",", " ", "F", "l", "o", "a", "t", ")", ")">>)

\* ------------------------------------------------------------------------
\* Termination
\* ------------------------------------------------------------------------

\* A scan or a resolution is under way
InLoop == pc = "loop"

\* What is left of a scan whose loop variables are state: the characters
\* after pos, the characters of remaining, the characters before i; one
\* body for the resolution of a lambda parameter
RemainingOf(state) ==
    CASE call.fn = "lambda_scan" -> Len(call.input.prefix) - state.pos
      [] call.fn = "chain_scan" -> Len(state.remaining)
      [] call.fn = "receiver_scan" -> state.i
      [] call.fn = "infer_lambda_param_type" -> 1

Remaining == RemainingOf(ret)

\* What the iteration of the scan under way gives
Iteration ==
    CASE call.fn = "lambda_scan" ->
            lambda_scan_step(call.input.prefix, ret.pos, ret.local_vars)
      [] call.fn = "chain_scan" ->
            chain_scan_step(ret.remaining, ret.current_type)
      [] call.fn = "receiver_scan" ->
            receiver_scan_step(call.input, ret.i, ret.depth, ret.in_string,
                               ret.string_char)
      [] call.fn = "infer_lambda_param_type" ->
            infer_lambda_param_type_recursive(
                call.input.full_prefix, call.input.before_dot,
                call.input.local_vars, ret.depth)

\* The iteration of the scan under way returns or leaves less of the scan
Advances ==
    InLoop => (Iteration.t # "Loop" \/ RemainingOf(Iteration) < Remaining)

\* The depth of the resolution of a lambda parameter under way
DepthInBound ==
    (InLoop /\ call.fn = "infer_lambda_param_type") => ret.depth <= 5

\* An iteration returns or leaves less of the scan
Progress == InLoop => (pc' = "done" \/ (pc' = "loop" /\ Remaining' < Remaining))

\* The scans, run one iteration at a time, return what the routines return
ScansAgree ==
    pc = "done" =>
       /\ call.fn = "lambda_scan" =>
             ret = extract_lambda_params_to_local_vars(call.input.prefix,
                                                       call.input.local_vars)
       /\ call.fn = "chain_scan" =>
             ret = process_method_calls(call.input.remaining,
                                        call.input.current_type)
       /\ call.fn = "receiver_scan" =>
             ret = extract_receiver_expression(call.input)

\* C27: every inference call terminates. Each iteration of the scans of
\* extract_lambda_params_to_local_vars, infer_method_chain_type and
\* extract_receiver_expression returns or leaves less text to scan, the
\* resolution of a lambda parameter stays within depth 5, also on lambdas
\* inside lambdas and on a parameter that is its own receiver; what is left
\* to scan is never negative, so every call returns after as many
\* iterations as its text has characters, at most.
C27_EveryCallTerminates ==
    /\ [](InLoop => Remaining >= 0)
    /\ []DepthInBound
    /\ []Advances
    /\ [][Progress]_vars

\* C27 witness: the resolution of the parameter of seven lambdas, each
\* inside the one before and each over the parameter of the one before,
\* has returned
C27_Witness ==
    /\ pc = "done"
    /\ call.fn = "infer_lambda_param_type"
    /\ call.input.full_prefix = <<"x", "s", ".", "m", "a", "p", "(", "p", " ", "=", ">", " ", "p", ".", "m", "a", "p", "(", "p", " ", "=", ">", " ", "p", ".", "m", "a", "p", "(", "p", " ", "=", ">", " ", "p", ".", "m", "a", "p", "(", "p", " ", "=", ">", " ", "p", ".", "m", "a", "p", "(", "p", " ", "=", ">", " ", "p", ".", "m", "a", "p", "(", "p", " ", "=", ">", " ", "p", ".", "m", "a", "p", "(", "p", " ", "=", ">", " ", "p">>
    /\ ret \in {None} \cup {Some(ty) : ty \in {tInt, tString, list_of(tInt)}}

\* ------------------------------------------------------------------------
\* Properties of self
\* ------------------------------------------------------------------------

\* C28: the environment extract_local_bindings returns binds self only when
\* the cursor line lies inside a trait-implementation block: a header is
\* open after the lines scanned, no `end` line having closed it.
C28_SelfOnlyInsideBlock ==
    (pc = "bound" /\ kSelf \in DOMAIN bindings)
    => OpenHeaderType(line_num) # None

\* ------------------------------------------------------------------------
\* Properties of the entry point on chains
\* ------------------------------------------------------------------------

\* C29: for a prefix that is a complete method chain on a string or list
\* literal, infer_dot_receiver_type returns the type infer_method_chain_type
\* gives for the chain, not the classification of the literal at its base.
C29_EntryAgreesWithChain ==
    (pc = "done" /\ call.fn = "dot_receiver_on_literal_chain")
    => ret = infer_method_chain_type(call.input.prefix, <<>>)

====
